---- MODULE Spec2Model ----
(***************************************************************************)
(* Towel Freshness Tracker (src/src/worker.mjs): the slot registry over    *)
(* the spreadsheet tables (slots, access, events) and the HS256 token      *)
(* service behind /login and the session cookie.                           *)
(*                                                                         *)
(* Time is counted in seconds.  Actor ids are positive integers; NoActor   *)
(* stands for the absent actor ('' / null).  A group id is a pair          *)
(* <<kind, n>>: <<"tg", n>> is the string "tg:n", <<"num", n>> the bare    *)
(* numeric string "n" of a pre-group (legacy) row, <<"key", n>> a custom   *)
(* group key and <<"none", 0>> the empty cell.  A number that need not be  *)
(* whole (a threshold, a score) is a fraction <<n, d>> with d > 0; a       *)
(* value handed to Number() is a record: kind "num" with its fraction,     *)
(* "nan" for text that is no number, "missing" for undefined.              *)
(*                                                                         *)
(* calls holds the handlers that run concurrently, each between two of its *)
(* awaited storage calls; it is empty where requests are served one after  *)
(* the other.                                                              *)
(***************************************************************************)
EXTENDS Integers, Sequences, FiniteSets, TLC

VARIABLES now, ticks, slots, access, events, nextId, res,
          issued, logins, vres, users, calls

vars == <<now, ticks, slots, access, events, nextId, res, issued, logins, vres, users,
          calls>>
slotVars == <<slots, access, events, nextId, res>>
tokVars == <<issued, logins, vres>>

----------------------------------------------------------------------------
(* Bounds *)

T0 == 1000
MaxTicks == 1
MaxActor == 2
MaxRows == 2
MaxEvents == 1

MaxTokTicks == 2
MaxSub == 2
MaxLogins == 2

MaxThr == 10
MaxAge == 10
MaxAhead == 1
MaxReq == 3

MaxLifeDays == 4
MaxLifeRows == 1
MaxLifeEvents == 2

MaxFrameEvents == 2
MaxPatchEvents == 2
MaxRoomEvents == 2
MaxAuditRows == 2
MaxAuditCreates == 1
MaxAuditEvents == 1

MaxRaceTicks == 1
MaxRenewTicks == 2
MaxOwnRows == 1
MaxOwnEvents == 2

(* Program constants *)

DAY == 86400
DefaultThreshold == 3
DefaultTtl == 900
MagicTtl == 2700
SessionTtl == 604800
HOUR == 3600
DefaultTz == 3
DefaultNotifyHour == 10

\* no handler in flight
NoCalls == <<>>

NoActor == 0
Actors == 1..MaxActor
NoId == 0
\* an id already in the sheet, outside the ids ulid() gives in a run
SeedId == MaxRows + MaxEvents + 2
NoGroup == <<"none", 0>>
Tg(n) == <<"tg", n>>
Fam == <<"key", 1>>

Ids == {1, SeedId, SeedId + 1}
Rooms == {"Bath"}
Names == {"Hand"}

----------------------------------------------------------------------------
(* Freshness *)

Max(a, b) == IF a >= b THEN a ELSE b

Whole(n) == <<n, 1>>
Geq(a, b) == a[1] * b[2] >= b[1] * a[2]
MaxNum(a, b) == IF Geq(a, b) THEN a ELSE b
IsInteger(a) == a[1] % a[2] = 0

\* a cell of column F holding text that Date.parse does not read
BadTime == -1

\* Math.floor((Date.now() - t) / 86400000), 0 when Date.parse gives NaN;
\* \div rounds towards minus infinity, as Math.floor does.
daysSince(last, t) == IF last = BadTime THEN 0 ELSE (t - last) \div DAY

\* calcStatus with the OK boundary exclusive
calcStatus_strictOk(threshold_days, last_change_at, t) ==
    LET d == daysSince(last_change_at, t)
        m == MaxNum(Whole(1), threshold_days)
        den == m[1]
        raw == 100 * m[1] - 100 * d * m[2]
        num == Max(0, raw)
        status == IF num > 40 * den THEN "OK"
                  ELSE IF num >= 20 * den THEN "WARN" ELSE "EXPIRED"
    IN [d |-> d, score |-> <<num, den>>, status |-> status]

\* calcStatus dividing by max(2, threshold)
calcStatus_maxTwo(threshold_days, last_change_at, t) ==
    LET d == daysSince(last_change_at, t)
        m == MaxNum(Whole(2), threshold_days)
        den == m[1]
        raw == 100 * m[1] - 100 * d * m[2]
        num == Max(0, raw)
        status == IF num >= 40 * den THEN "OK"
                  ELSE IF num >= 20 * den THEN "WARN" ELSE "EXPIRED"
    IN [d |-> d, score |-> <<num, den>>, status |-> status]

\* load = d / max(1, threshold) and score = max(0, 100 - load * 100), kept
\* as the exact fraction num/den with den the numerator of max(1, threshold)
calcStatus(threshold_days, last_change_at, t) ==
    LET d == daysSince(last_change_at, t)
        m == MaxNum(Whole(1), threshold_days)
        den == m[1]
        raw == 100 * m[1] - 100 * d * m[2]
        num == Max(0, raw)
        status == IF num >= 40 * den THEN "OK"
                  ELSE IF num >= 20 * den THEN "WARN" ELSE "EXPIRED"
    IN [d |-> d, score |-> <<num, den>>, status |-> status]

----------------------------------------------------------------------------
(* Base64: characters are ASCII codes, a string is a sequence of codes.    *)

Pow2(k) == 2 ^ k

Throw == <<-1>>
Whitespace == {9, 10, 12, 13, 32}
EqSign == 61

\* the character btoa writes for a sextet, after .replace(+ -> -) and (/ -> _)
UrlChar(v) == IF v < 26 THEN 65 + v ELSE IF v < 52 THEN 71 + v
              ELSE IF v < 62 THEN v - 4 ELSE IF v = 62 THEN 45 ELSE 95

\* the sextet atob reads from a character of the standard alphabet, -1 otherwise
StdVal(c) == IF c \in 65..90 THEN c - 65 ELSE IF c \in 97..122 THEN c - 71
             ELSE IF c \in 48..57 THEN c + 4 ELSE IF c = 43 THEN 62
             ELSE IF c = 47 THEN 63 ELSE -1

ByteAt(b, i) == IF i \in 1..Len(b) THEN b[i] ELSE 0

\* btoa(binary) without the trailing '=' padding, '+' and '/' replaced
b64url(bytes) ==
    [j \in 1..((8 * Len(bytes) + 5) \div 6) |->
        LET o == 6 * (j - 1)
            i == o \div 8
            r == o % 8
            w == ByteAt(bytes, i + 1) * 256 + ByteAt(bytes, i + 2)
        IN UrlChar((w \div Pow2(10 - r)) % 64)]

StripEq(s) ==
    IF Len(s) >= 2 /\ s[Len(s)] = EqSign /\ s[Len(s) - 1] = EqSign THEN SubSeq(s, 1, Len(s) - 2)
    ELSE IF Len(s) >= 1 /\ s[Len(s)] = EqSign THEN SubSeq(s, 1, Len(s) - 1)
    ELSE s

\* forgiving-base64 decode: strips ASCII whitespace, then up to two '=' when
\* the length is a multiple of 4, fails on length 1 mod 4 or on a character
\* outside the alphabet, and drops the bits left over after the last byte
atob(s) ==
    LET d1 == SelectSeq(s, LAMBDA c : c \notin Whitespace)
        d2 == IF Len(d1) % 4 = 0 THEN StripEq(d1) ELSE d1
    IN IF Len(d2) % 4 = 1 \/ \E i \in 1..Len(d2) : StdVal(d2[i]) = -1
       THEN Throw
       ELSE [k \in 1..((6 * Len(d2)) \div 8) |->
                LET o == 8 * (k - 1)
                    i == o \div 6
                    r == o % 6
                    w == StdVal(d2[i + 1]) * 64 + StdVal(d2[i + 2])
                IN (w \div Pow2(4 - r)) % 256]

b64ToBytes(b64) ==
    LET std == [i \in 1..Len(b64) |->
                   IF b64[i] = 45 THEN 43 ELSE IF b64[i] = 95 THEN 47 ELSE b64[i]]
        pad == IF Len(b64) % 4 = 2 THEN <<EqSign, EqSign>>
               ELSE IF Len(b64) % 4 = 3 THEN <<EqSign>> ELSE <<>>
    IN atob(std \o pad)

timingSafeEq(a, b) ==
    /\ Len(a) = Len(b)
    /\ \A i \in 1..Len(a) : a[i] = b[i]

----------------------------------------------------------------------------
(* Tokens.  A token is the sequence of its '.'-separated segments.  The    *)
(* header segment is a name, the payload segment a record: kind "json" is  *)
(* the encoding of an object with the fields sub (0: missing), iat and exp *)
(* (hasExp FALSE: missing), "junk" decodes to text that is not JSON and    *)
(* "bad64" is not base64.  The signature segment is a string.              *)

Hdr == "HS256.JWT"
Secrets == {1, 2}
ServerSecret == 1
Subs == 1..MaxSub

Body(sub, iat, exp) == [kind |-> "json", sub |-> sub, iat |-> iat, exp |-> exp, hasExp |-> TRUE]

KindCode(k) == IF k = "json" THEN 0 ELSE IF k = "junk" THEN 1 ELSE 2

Bytes3(n) == <<(n \div 65536) % 256, (n \div 256) % 256, n % 256>>

\* HMAC-SHA256 taken as collision-free: the MAC is an injective encoding of
\* the key and the signed text `${h}.${p}`; its length is 2 mod 3, like 32.
hmacBytes(secret, h, p) ==
    <<secret, KindCode(p.kind) * 64 + (IF p.hasExp THEN 32 ELSE 0)
              + (IF h = Hdr THEN 0 ELSE 16) + p.sub>>
    \o Bytes3(p.iat) \o Bytes3(p.exp)

hmacSign(secret, h, p) == b64url(hmacBytes(secret, h, p))

\* Number(ttlSec || 900)
ttlOrDefault(ttlSec) == IF ttlSec = 0 THEN DefaultTtl ELSE ttlSec

\* jwtSignHS256 building the body without the caller's payload
jwtSignHS256_noPayload(sub, secret, ttlSec, t) ==
    LET body == Body(0, t, t + ttlOrDefault(ttlSec))
    IN <<Hdr, body, hmacSign(secret, Hdr, body)>>

jwtSignHS256(sub, secret, ttlSec, t) ==
    LET body == Body(sub, t, t + ttlOrDefault(ttlSec))
    IN <<Hdr, body, hmacSign(secret, Hdr, body)>>

VNull == [kind |-> "null", sub |-> 0, iat |-> 0, exp |-> 0]
VThrow == [kind |-> "throw", sub |-> 0, iat |-> 0, exp |-> 0]

\* expired with the boundary on the wrong side
expired_atExp(t, exp) == t >= exp

\* Math.floor(Date.now()/1000) > Number(payload.exp)
expired(t, exp) == t > exp

jwtVerifyHS256(token, secret, t) ==
    IF Len(token) # 3 THEN VNull
    ELSE LET h == token[1]
             p == token[2]
             s == token[3]
             expected == hmacSign(secret, h, p)
             a == b64ToBytes(s)
             b == b64ToBytes(expected)
         IN IF a = Throw \/ b = Throw THEN VThrow
            ELSE IF ~timingSafeEq(a, b) THEN VNull
            ELSE IF p.kind # "json" THEN VNull
            ELSE IF ~p.hasExp \/ p.exp = 0 \/ expired(t, p.exp) THEN VNull
            ELSE [kind |-> "payload", sub |-> p.sub, iat |-> p.iat, exp |-> p.exp]

\* the last token signed, with the arguments of the call
NoIssued == [token |-> <<>>, sub |-> 0, ttl |-> 0, at |-> 0, secret |-> 0]

\* the answer to the last request, with the token, key and time of the request
NoOut == [op |-> "none", tok |-> <<>>, secret |-> 0, at |-> 0, kind |-> "none",
          sub |-> 0, iat |-> 0, exp |-> 0, cookie |-> <<>>]

Out(op, token, secret, t, r, cookie) ==
    [op |-> op, tok |-> token, secret |-> secret, at |-> t, kind |-> r.kind,
     sub |-> r.sub, iat |-> r.iat, exp |-> r.exp, cookie |-> cookie]

\* login issuing the session with the magic-link lifetime
login_magicTtl(token, t) ==
    IF token = <<>> THEN [status |-> "400", cookie |-> <<>>]
    ELSE LET magic == jwtVerifyHS256(token, ServerSecret, t)
         IN IF magic.kind = "throw" THEN [status |-> "500", cookie |-> <<>>]
            ELSE IF magic.kind = "null" \/ magic.sub = 0
                 THEN [status |-> "401", cookie |-> <<>>]
                 ELSE [status |-> "302",
                       cookie |-> jwtSignHS256(magic.sub, ServerSecret, MagicTtl, t)]

\* GET /login?token=...
login(token, t) ==
    IF token = <<>> THEN [status |-> "400", cookie |-> <<>>]
    ELSE LET magic == jwtVerifyHS256(token, ServerSecret, t)
         IN IF magic.kind = "throw" THEN [status |-> "500", cookie |-> <<>>]
            ELSE IF magic.kind = "null" \/ magic.sub = 0
                 THEN [status |-> "401", cookie |-> <<>>]
                 ELSE [status |-> "302",
                       cookie |-> jwtSignHS256(magic.sub, ServerSecret, SessionTtl, t)]

\* the uid of the "sid" cookie: kind "uid", "null", or "throw"
parseSession(cookieTok, t) ==
    IF cookieTok = <<>> THEN VNull
    ELSE LET payload == jwtVerifyHS256(cookieTok, ServerSecret, t)
         IN IF payload.kind = "payload" THEN [payload EXCEPT !.kind = "uid"] ELSE payload

----------------------------------------------------------------------------
(* Storage collaborator: row r of a sheet is element r - 1 of the sequence *)
(* (row 1 is the header).                                                  *)

\* the rows of a sheet as a sequence
AsRows(f) == SubSeq(f, 1, Len(f))

sheetsAppend(rows, row) == Append(rows, row)

\* sheetsUpdate taking the sheet row number for the index of the data row
sheetsUpdate_rowBelow(rows, r, col, v) ==
    AsRows([i \in 1..Len(rows) |->
               IF i = r THEN [rows[i] EXCEPT ![col] = v] ELSE rows[i]])

\* sheetsUpdate losing the write
sheetsUpdate_noWrite(rows, r, col, v) == rows

sheetsUpdate(rows, r, col, v) ==
    AsRows([i \in 1..Len(rows) |->
               IF i = r - 1 THEN [rows[i] EXCEPT ![col] = v] ELSE rows[i]])

\* deleteDimension with startIndex rowIndex: the row below is removed
sheetsDeleteRow_rowBelow(rows, r) ==
    IF r > Len(rows) THEN rows
    ELSE AsRows([i \in 1..(Len(rows) - 1) |-> IF i < r THEN rows[i] ELSE rows[i + 1]])

sheetsDeleteRow(rows, r) ==
    AsRows([i \in 1..(Len(rows) - 1) |-> IF i < r - 1 THEN rows[i] ELSE rows[i + 1]])

\* one values:batchUpdate call writing v into column col of the sheet rows rs
sheetsUpdateBatch(rows, rs, col, v) ==
    AsRows([i \in 1..Len(rows) |->
               IF i + 1 \in rs THEN [rows[i] EXCEPT ![col] = v] ELSE rows[i]])

logEvent(ev, t, slot_id, action, actor, note) ==
    Append(ev, [ts |-> t, slot_id |-> slot_id, action |-> action,
                actor |-> actor, note |-> note])

----------------------------------------------------------------------------
(* Access resolver *)

\* the group cells of the rows whose member column equals
\* String(tg_user_id), in sheet order, the empty ones dropped (filter(Boolean))
Matches(acc, u) ==
    LET sel == SelectSeq(acc, LAMBDA r : r.m = u /\ r.g # NoGroup)
    IN [i \in 1..Len(sel) |-> sel[i].g]

\* listGroupsForUser persisting the self-group whatever ensure says
listGroupsForUser_alwaysEnsure(acc, u, ensure) ==
    IF u = NoActor THEN [groups |-> <<>>, acc |-> acc]
    ELSE LET matches == Matches(acc, u)
         IN IF Len(matches) > 0
            THEN [groups |-> matches, acc |-> acc]
            ELSE [groups |-> <<Tg(u)>>,
                  acc |-> sheetsAppend(acc, [g |-> Tg(u), m |-> u])]

\* returns the groups and the access table after the call
listGroupsForUser(acc, u, ensure) ==
    IF u = NoActor THEN [groups |-> <<>>, acc |-> acc]
    ELSE LET matches == Matches(acc, u)
         IN IF Len(matches) > 0 \/ ~ensure
            THEN [groups |-> matches, acc |-> acc]
            ELSE [groups |-> <<Tg(u)>>,
                  acc |-> sheetsAppend(acc, [g |-> Tg(u), m |-> u])]

getPrimaryGroupId(acc, u) ==
    LET r == listGroupsForUser(acc, u, TRUE)
    IN [group_id |-> r.groups[1], acc |-> r.acc]

Range(s) == {s[i] : i \in 1..Len(s)}

\* groupSetOf without the self-group fallback
groupSetOf_noSelf(acc, u) == Range(listGroupsForUser(acc, u, FALSE).groups)

\* const groupSet = new Set(groups); if (groupSet.size === 0) groupSet.add(`tg:${actor}`)
groupSetOf(acc, u) ==
    LET gs == Range(listGroupsForUser(acc, u, FALSE).groups)
    IN IF gs = {} THEN {Tg(u)} ELSE gs

\* hasSlotAccess with the legacy test reduced to "the row has a numeric owner"
hasSlotAccess_anyLegacy(slot, userId, groupSet) ==
    \/ userId = NoActor
    \/ slot.group_id # NoGroup /\ slot.group_id \in groupSet
    \/ slot.owner_fallback # NoActor

hasSlotAccess(slot, userId, groupSet) ==
    \/ userId = NoActor
    \/ slot.group_id # NoGroup /\ slot.group_id \in groupSet
    \/ slot.owner_fallback # NoActor /\ slot.owner_fallback = userId

----------------------------------------------------------------------------
(* Slot rows *)

\* column E left empty
NoNum == <<0, 0>>

\* null when the row has no id
parseSlotRow(row, rowNumber) ==
    LET legacy == row.grp[1] = "num"
    IN [id |-> row.id, name |-> row.name,
        group_id |-> IF legacy THEN Tg(row.grp[2]) ELSE row.grp,
        room |-> row.room,
        threshold_days |-> IF row.thr = NoNum THEN Whole(DefaultThreshold) ELSE row.thr,
        last_change_at |-> row.last, sheet_row |-> rowNumber,
        owner_fallback |-> IF legacy THEN row.grp[2] ELSE NoActor]

\* a row with a name and no id gets a fresh id, written back to column A
NeedsId(row) == row.id = NoId /\ row.name # ""

FixesBefore(rows, i) == Cardinality({j \in 1..(i - 1) : NeedsId(rows[j])})

FixedRows(rows, nid) ==
    AsRows([i \in 1..Len(rows) |->
               IF NeedsId(rows[i]) THEN [rows[i] EXCEPT !.id = nid + FixesBefore(rows, i)]
               ELSE rows[i]])

\* the parsed table, the sheet after the id fixes, and the next fresh id
getSlotsTable(rows, nid) ==
    LET fixed == FixedRows(rows, nid)
        keep == {i \in 1..Len(rows) : fixed[i].id # NoId}
        pos == [k \in 1..Cardinality(keep) |->
                   CHOOSE i \in keep : Cardinality({j \in keep : j < i}) = k - 1]
    IN [table |-> AsRows([k \in 1..Cardinality(keep) |->
                             parseSlotRow(fixed[pos[k]], pos[k] + 1)]),
        rows |-> fixed,
        nid |-> nid + FixesBefore(rows, Len(rows) + 1)]

\* FindIdx falling back to the first row instead of null
FindIdx_firstRow(table, id) ==
    IF \E k \in 1..Len(table) : table[k].id = id
    THEN CHOOSE k \in 1..Len(table) :
            table[k].id = id /\ \A j \in 1..(k - 1) : table[j].id # id
    ELSE IF Len(table) > 0 THEN 1 ELSE 0

\* table.find(s => s.id === id) || null : the index of the first match, 0 for null
FindIdx(table, id) ==
    IF \E k \in 1..Len(table) : table[k].id = id
    THEN CHOOSE k \in 1..Len(table) :
            table[k].id = id /\ \A j \in 1..(k - 1) : table[j].id # id
    ELSE 0

\* sheet_row is 0 when the caller did not ask for the metadata
formatSlotForOutput(slot, includeMeta, t) ==
    LET m == calcStatus(slot.threshold_days, slot.last_change_at, t)
    IN [id |-> slot.id, name |-> slot.name, group_id |-> slot.group_id,
        room |-> slot.room, threshold_days |-> slot.threshold_days,
        last_change_at |-> slot.last_change_at,
        d |-> m.d, score |-> m.score, status |-> m.status,
        sheet_row |-> IF includeMeta THEN slot.sheet_row ELSE 0]

\* visibleSlots without the filter
visibleSlots_all(table, acc, userFilter) == table

\* the slots visible to userFilter, in table order (before formatting)
visibleSlots(table, acc, userFilter) ==
    IF userFilter = NoActor THEN table
    ELSE SelectSeq(table, LAMBDA s : hasSlotAccess(s, userFilter, groupSetOf(acc, userFilter)))

JsNum(q) == [k |-> "num", v |-> q]
JsNaN == [k |-> "nan", v |-> Whole(0)]
JsMissing == [k |-> "missing", v |-> Whole(0)]

\* the body of PATCH /api/slots/:id
Patch(hasRoom, room, hasThr, thr) ==
    [hasRoom |-> hasRoom, room |-> room, hasThr |-> hasThr, thr |-> thr]

\* normalizeThreshold without the clamp
normalizeThreshold_noClamp(x) == IF x.k # "num" THEN Whole(1) ELSE x.v

\* Math.max(1, Number(threshold_days) || 1): Number() of text that is no
\* number is NaN, and NaN and 0 are falsy
normalizeThreshold(x) ==
    IF x.k # "num" \/ x.v[1] = 0 THEN Whole(1) ELSE MaxNum(Whole(1), x.v)

----------------------------------------------------------------------------
(* Results of the last operation *)

NoRes == [op |-> "none", actor |-> NoActor, id |-> NoId, out |-> "none", list |-> <<>>, at |-> 0]

Result(op, actor, id, out, list, t) ==
    [op |-> op, actor |-> actor, id |-> id, out |-> out, list |-> list, at |-> t]

\* the outcome of the lookup and access check shared by refresh, update, delete
checkSlot(table, acc, id, actor) ==
    LET k == FindIdx(table, id)
    IN IF k = 0 THEN "slot not found"
       ELSE IF actor # NoActor /\ ~hasSlotAccess(table[k], actor, groupSetOf(acc, actor))
            THEN "forbidden"
            ELSE "ok"

----------------------------------------------------------------------------
(* Slot registry operations.  res holds the answer of the request being   *)
(* served; the next request is taken once the answer has been returned.    *)

listSlots(userFilter) ==
    LET t == getSlotsTable(slots, nextId)
        vis == visibleSlots(t.table, access, userFilter)
    IN /\ res = NoRes
       /\ slots' = t.rows
       /\ nextId' = t.nid
       /\ res' = Result("list", userFilter, NoId, "ok",
                        [i \in 1..Len(vis) |-> formatSlotForOutput(vis[i], FALSE, now)], now)
       /\ UNCHANGED <<now, ticks, access, events, tokVars, users, calls>>

createSlot(name, owner_tg_id, room, threshold_days) ==
    LET normalizedThreshold ==
            normalizeThreshold(IF threshold_days.k = "missing"
                               THEN JsNum(Whole(DefaultThreshold)) ELSE threshold_days)
        id == nextId
        g == getPrimaryGroupId(access, owner_tg_id)
        row == [id |-> id, name |-> name, grp |-> g.group_id, room |-> room,
                thr |-> normalizedThreshold, last |-> now]
    IN /\ res = NoRes
       /\ access' = g.acc
       /\ slots' = sheetsAppend(slots, row)
       /\ nextId' = nextId + 1
       /\ events' = logEvent(events, now, id, "CREATE", owner_tg_id, name)
       /\ res' = Result("create", owner_tg_id, id, "ok",
                        <<[formatSlotForOutput(parseSlotRow(row, 0), FALSE, now)
                             EXCEPT !.group_id = g.group_id]>>, now)
       /\ UNCHANGED <<now, ticks, tokVars, users, calls>>

refreshSlot(id, actor) ==
    LET t == getSlotsTable(slots, nextId)
        out == checkSlot(t.table, access, id, actor)
        slot == t.table[FindIdx(t.table, id)]
    IN /\ res = NoRes
       /\ nextId' = t.nid
       /\ res' = Result("refresh", actor, id, out, <<>>, now)
       /\ IF out = "ok"
          THEN /\ slots' = sheetsUpdate(t.rows, slot.sheet_row, "last", now)
               /\ events' = logEvent(events, now, id, "REFRESH", actor, "")
          ELSE /\ slots' = t.rows
               /\ events' = events
       /\ UNCHANGED <<now, ticks, access, tokVars, users, calls>>

\* for (const t of targets) await logEvent(...)
logEvents(ev, t, targets, action, actor, note) ==
    ev \o [k \in 1..Len(targets) |->
              [ts |-> t, slot_id |-> targets[k].id, action |-> action,
               actor |-> actor, note |-> note]]

\* { updated: n }
Updated(n) == <<[updated |-> n]>>

refreshByRoom(actorId, room) ==
    LET t == getSlotsTable(slots, nextId)
        vis == visibleSlots(t.table, access, actorId)
        all == [i \in 1..Len(vis) |-> formatSlotForOutput(vis[i], TRUE, now)]
        targets == SelectSeq(all, LAMBDA x : x.room = room)
        rs == {targets[k].sheet_row : k \in 1..Len(targets)}
    IN /\ res = NoRes
       /\ nextId' = t.nid
       /\ IF Len(targets) = 0
          THEN /\ slots' = t.rows
               /\ events' = events
               /\ res' = Result("refreshRoom", actorId, NoId, "ok", Updated(0), now)
          ELSE /\ slots' = sheetsUpdateBatch(t.rows, rs, "last", now)
               /\ events' = logEvents(events, now, targets, "REFRESH", actorId, "room:" \o room)
               /\ res' = Result("refreshRoom", actorId, NoId, "ok", Updated(Len(targets)), now)
       /\ UNCHANGED <<now, ticks, access, tokVars, users, calls>>

\* a call of listGroupsForUser(tg_user_id, { ensure }) and what it returns
listGroups(u, ensure) ==
    LET r == listGroupsForUser(access, u, ensure)
    IN /\ res = NoRes
       /\ access' = r.acc
       /\ res' = Result("groups", u, NoId, IF ensure THEN "ensure" ELSE "plain", r.groups, now)
       /\ UNCHANGED <<now, ticks, slots, events, nextId, tokVars, users, calls>>

\* JSON.stringify(patch)
patchNote(patch) ==
    (IF patch.hasRoom THEN "room=" \o patch.room ELSE "") \o
    (IF patch.hasThr THEN ";threshold_days=" \o ToString(patch.thr) ELSE "")

updateSlot(id, patch, actor) ==
    LET t == getSlotsTable(slots, nextId)
        out == checkSlot(t.table, access, id, actor)
        slot == t.table[FindIdx(t.table, id)]
        r1 == IF patch.hasRoom
              THEN sheetsUpdate(t.rows, slot.sheet_row, "room", patch.room) ELSE t.rows
        r2 == IF patch.hasThr
              THEN sheetsUpdate(r1, slot.sheet_row, "thr", normalizeThreshold(patch.thr)) ELSE r1
        writes == patch.hasRoom \/ patch.hasThr
    IN /\ res = NoRes
       /\ nextId' = t.nid
       /\ res' = Result("update", actor, id, out, <<>>, now)
       /\ IF out = "ok" /\ writes
          THEN /\ slots' = r2
               /\ events' = logEvent(events, now, id, "UPDATE", actor, patchNote(patch))
          ELSE /\ slots' = t.rows
               /\ events' = events
       /\ UNCHANGED <<now, ticks, access, tokVars, users, calls>>

deleteSlot(id, actor) ==
    LET t == getSlotsTable(slots, nextId)
        out == checkSlot(t.table, access, id, actor)
        slot == t.table[FindIdx(t.table, id)]
    IN /\ res = NoRes
       /\ nextId' = t.nid
       /\ res' = Result("delete", actor, id, out, <<>>, now)
       /\ IF out = "ok"
          THEN /\ slots' = sheetsDeleteRow(t.rows, slot.sheet_row)
               /\ events' = logEvent(events, now, id, "DELETE", actor, slot.name)
          ELSE /\ slots' = t.rows
               /\ events' = events
       /\ UNCHANGED <<now, ticks, access, tokVars, users, calls>>

----------------------------------------------------------------------------
(* The same operations when a storage call answers with an error: the call  *)
(* throws, the rest of the operation is not run and the request is answered *)
(* with status 500.  failAt names the call that throws: "write" is the call *)
(* that changes the slots sheet, "log" the append of logEvent after it.     *)
(* Writes made before the failing call stay in the sheets.                  *)

FailPoints == {"write", "log"}

createSlotThrows(name, owner_tg_id, room, threshold_days, failAt) ==
    LET normalizedThreshold ==
            normalizeThreshold(IF threshold_days.k = "missing"
                               THEN JsNum(Whole(DefaultThreshold)) ELSE threshold_days)
        id == nextId
        g == getPrimaryGroupId(access, owner_tg_id)
        row == [id |-> id, name |-> name, grp |-> g.group_id, room |-> room,
                thr |-> normalizedThreshold, last |-> now]
    IN /\ res = NoRes
       /\ access' = g.acc
       /\ slots' = IF failAt = "write" THEN slots ELSE sheetsAppend(slots, row)
       /\ nextId' = IF failAt = "write" THEN nextId ELSE nextId + 1
       /\ events' = events
       /\ res' = Result("create", owner_tg_id, id, "error", <<>>, now)
       /\ UNCHANGED <<now, ticks, tokVars, users, calls>>

refreshSlotThrows(id, actor, failAt) ==
    LET t == getSlotsTable(slots, nextId)
        out == checkSlot(t.table, access, id, actor)
        slot == t.table[FindIdx(t.table, id)]
    IN /\ res = NoRes
       /\ out = "ok"
       /\ nextId' = t.nid
       /\ slots' = IF failAt = "write" THEN t.rows
                   ELSE sheetsUpdate(t.rows, slot.sheet_row, "last", now)
       /\ events' = events
       /\ res' = Result("refresh", actor, id, "error", <<>>, now)
       /\ UNCHANGED <<now, ticks, access, tokVars, users, calls>>

updateSlotThrows(id, patch, actor, failAt) ==
    LET t == getSlotsTable(slots, nextId)
        out == checkSlot(t.table, access, id, actor)
        slot == t.table[FindIdx(t.table, id)]
        r1 == IF patch.hasRoom
              THEN sheetsUpdate(t.rows, slot.sheet_row, "room", patch.room) ELSE t.rows
        r2 == IF patch.hasThr
              THEN sheetsUpdate(r1, slot.sheet_row, "thr", normalizeThreshold(patch.thr)) ELSE r1
    IN /\ res = NoRes
       /\ out = "ok"
       /\ patch.hasRoom \/ patch.hasThr
       /\ nextId' = t.nid
       /\ slots' = IF failAt = "write" THEN t.rows ELSE r2
       /\ events' = events
       /\ res' = Result("update", actor, id, "error", <<>>, now)
       /\ UNCHANGED <<now, ticks, access, tokVars, users, calls>>

deleteSlotThrows(id, actor, failAt) ==
    LET t == getSlotsTable(slots, nextId)
        out == checkSlot(t.table, access, id, actor)
        slot == t.table[FindIdx(t.table, id)]
    IN /\ res = NoRes
       /\ out = "ok"
       /\ nextId' = t.nid
       /\ slots' = IF failAt = "write" THEN t.rows
                   ELSE sheetsDeleteRow(t.rows, slot.sheet_row)
       /\ events' = events
       /\ res' = Result("delete", actor, id, "error", <<>>, now)
       /\ UNCHANGED <<now, ticks, access, tokVars, users, calls>>

----------------------------------------------------------------------------
(* Hourly reminders.  A row of the users sheet is [id, tz, hour], the zone  *)
(* given by its offset from UTC in hours.  A reminder is [to, slots, due].  *)

hourInTz(t, tz) == ((t \div HOUR) + tz) % 24

ScoreLess(a, b) == a.score[1] * b.score[2] < b.score[1] * a.score[2]

\* overdue.sort((a,b) => a.score - b.score), a stable sort
sortByScore(seq) ==
    LET rank(i) == 1 + Cardinality({j \in 1..Len(seq) :
                          \/ ScoreLess(seq[j], seq[i])
                          \/ j < i /\ ~ScoreLess(seq[i], seq[j])})
    IN [k \in 1..Len(seq) |-> seq[CHOOSE i \in 1..Len(seq) : rank(i) = k]]

\* slots.filter(s => daysSince(s.last_change_at) >= Number(s.threshold_days || 0))
overdueOf(list, t) ==
    SelectSeq(list, LAMBDA s : Geq(Whole(daysSince(s.last_change_at, t)), s.threshold_days))

reminderFor(u, table, acc, t) ==
    LET vis == visibleSlots(table, acc, u.id)
        list == [i \in 1..Len(vis) |-> formatSlotForOutput(vis[i], FALSE, t)]
    IN [to |-> u.id, slots |-> sortByScore(overdueOf(list, t)),
        due |-> hourInTz(t, u.tz) = u.hour]

\* the messages handed to tgSend, in the order of the users sheet
remindersSent(all) == SelectSeq(all, LAMBDA m : m.due /\ Len(m.slots) > 0)

\* listSlots is called, and the slots sheet read, for the users whose hour it is
runHourlyReminders ==
    LET t == getSlotsTable(slots, nextId)
        all == [i \in 1..Len(users) |-> reminderFor(users[i], t.table, access, now)]
        read == \E i \in 1..Len(users) : all[i].due
    IN /\ res = NoRes
       /\ slots' = IF read THEN t.rows ELSE slots
       /\ nextId' = IF read THEN t.nid ELSE nextId
       /\ res' = Result("remind", NoActor, NoId, "ok", remindersSent(all), now)
       /\ UNCHANGED <<now, ticks, access, events, tokVars, users, calls>>

(* The owner-based worker (src/unnamed/part_000): column C holds the bare   *)
(* owner id, every row of the sheet is a slot.                              *)

\* r[2] ? Number(r[2]) : null, NaN for a cell that is not a number
legacyOwner(row) == IF row.grp[1] = "num" THEN row.grp[2] ELSE NoActor

legacyListSlots(rows, ownerFilter, t) ==
    LET mine == IF ownerFilter = NoActor THEN rows
                ELSE SelectSeq(rows, LAMBDA r : legacyOwner(r) = ownerFilter)
    IN [i \in 1..Len(mine) |->
          LET thr == IF mine[i].thr = NoNum THEN Whole(DefaultThreshold) ELSE mine[i].thr
              m == calcStatus(thr, mine[i].last, t)
          IN [id |-> mine[i].id, name |-> mine[i].name, owner_tg_id |-> legacyOwner(mine[i]),
              room |-> mine[i].room, threshold_days |-> thr,
              last_change_at |-> mine[i].last,
              d |-> m.d, score |-> m.score, status |-> m.status]]

\* slots.filter(s => s.status !== "OK")
legacyReminderFor(u, rows, t) ==
    LET list == legacyListSlots(rows, u.id, t)
    IN [to |-> u.id, slots |-> sortByScore(SelectSeq(list, LAMBDA s : s.status # "OK")),
        due |-> hourInTz(t, u.tz) = u.hour]

legacyRunHourlyReminders ==
    LET all == [i \in 1..Len(users) |-> legacyReminderFor(users[i], slots, now)]
    IN /\ res = NoRes
       /\ res' = Result("legacyRemind", NoActor, NoId, "ok", remindersSent(all), now)
       /\ UNCHANGED <<now, ticks, slots, nextId, access, events, tokVars, users, calls>>

\* findRowById of the older worker: the sheet row of the first row whose
\* column A equals the id, an empty cell reading as the empty id; 0 for null
legacyFindRowById(rows, id) ==
    IF \E i \in 1..Len(rows) : rows[i].id = id
    THEN 1 + CHOOSE i \in 1..Len(rows) :
                rows[i].id = id /\ \A j \in 1..(i - 1) : rows[j].id # id
    ELSE 0

\* refreshSlot of the older worker: the row is found by id and written
legacyRefreshSlot(id, actor) ==
    LET rowIndex == legacyFindRowById(slots, id)
    IN /\ res = NoRes
       /\ IF rowIndex = 0
          THEN /\ slots' = slots
               /\ events' = events
               /\ res' = Result("legacyRefresh", actor, id, "slot not found", <<>>, now)
          ELSE /\ slots' = sheetsUpdate(slots, rowIndex, "last", now)
               /\ events' = logEvent(events, now, id, "REFRESH", actor, "")
               /\ res' = Result("legacyRefresh", actor, id, "ok", <<>>, now)
       /\ UNCHANGED <<now, ticks, nextId, access, tokVars, users, calls>>

legacyRefreshByRoom(ownerId, room) ==
    LET all == legacyListSlots(slots, ownerId, now)
        targets == SelectSeq(all, LAMBDA x : x.room = room)
        rs == {legacyFindRowById(slots, targets[k].id) : k \in 1..Len(targets)} \ {0}
    IN /\ res = NoRes
       /\ IF Len(targets) = 0
          THEN /\ slots' = slots
               /\ events' = events
               /\ res' = Result("legacyRefreshRoom", ownerId, NoId, "ok", Updated(0), now)
          ELSE /\ slots' = sheetsUpdateBatch(slots, rs, "last", now)
               /\ events' = logEvents(events, now, targets, "REFRESH", ownerId, "room:" \o room)
               /\ res' = Result("legacyRefreshRoom", ownerId, NoId, "ok",
                                Updated(Len(targets)), now)
       /\ UNCHANGED <<now, ticks, nextId, access, tokVars, users, calls>>

----------------------------------------------------------------------------
(* Concurrent handlers.  A handler gives up control at each awaited storage *)
(* call, so the calls of two requests interleave: a step below is one       *)
(* storage call of one handler together with the code that runs up to the   *)
(* next one.  calls[p] holds the locals of handler p: the slot it found     *)
(* (with its sheet_row), the id fixes it computed, the timestamp it took.   *)

Procs == {1, 2}

NoSlot == [id |-> NoId, sheet_row |-> 0]

Idle ==
    [pc |-> "idle", op |-> "none", actor |-> NoActor, id |-> NoId, slot |-> NoSlot,
     fixes |-> {}, stamp |-> 0, patch |-> Patch(FALSE, "", FALSE, JsMissing),
     out |-> "none", order |-> 0]

\* the writes to the slots sheet applied so far
WritesApplied == Cardinality({q \in Procs : calls[q].order > 0})

\* throw new Error(...) / return { ok: true }
Finish(c, out) == [c EXCEPT !.pc = "done", !.out = out]

\* after getSlotById: if (!slot) throw new Error('slot not found')
AfterLookup(c) ==
    IF c.op = "remind" THEN Finish(c, "ok")
    ELSE IF c.slot = NoSlot THEN Finish(c, "slot not found") ELSE [c EXCEPT !.pc = "access"]

\* getSlotsTable up to its sheetsUpdate: the sheet is read, rows with a name
\* and no id get an id from ulid(), and the slot is looked up in the table
\* built from what was read
slotCallRead(p, op, id, actor, patch) ==
    LET t == getSlotsTable(slots, nextId)
        k == FindIdx(t.table, id)
        fixes == {<<i + 1, t.rows[i].id>> : i \in {j \in 1..Len(slots) : NeedsId(slots[j])}}
        c == [Idle EXCEPT !.op = op, !.id = id, !.actor = actor, !.patch = patch,
                          !.fixes = fixes,
                          !.slot = IF k = 0 THEN NoSlot ELSE t.table[k]]
    IN /\ calls[p].pc = "idle"
       /\ nextId' = t.nid
       /\ calls' = [calls EXCEPT ![p] = IF fixes # {} THEN [c EXCEPT !.pc = "fix"]
                                        ELSE AfterLookup(c)]
       /\ UNCHANGED <<now, ticks, slots, access, events, res, tokVars, users>>

\* runHourlyReminders up to the sheetsUpdate of getSlotsTable, which it
\* reaches through listSlots for a user whose hour it is
reminderCallRead(p) ==
    LET t == getSlotsTable(slots, nextId)
        fixes == {<<i + 1, t.rows[i].id>> : i \in {j \in 1..Len(slots) : NeedsId(slots[j])}}
        c == [Idle EXCEPT !.op = "remind", !.fixes = fixes]
    IN /\ calls[p].pc = "idle"
       /\ \E i \in 1..Len(users) : hourInTz(now, users[i].tz) = users[i].hour
       /\ nextId' = t.nid
       /\ calls' = [calls EXCEPT ![p] = IF fixes # {} THEN [c EXCEPT !.pc = "fix"]
                                        ELSE AfterLookup(c)]
       /\ UNCHANGED <<now, ticks, slots, access, events, res, tokVars, users>>

\* if (fixes.length) await sheetsUpdate(env, fixes): column A of the row
\* numbers computed at the read, in the sheet as it is now
slotCallFix(p) ==
    LET c == calls[p]
    IN /\ c.pc = "fix"
       /\ slots' = AsRows([i \in 1..Len(slots) |->
                             IF \E f \in c.fixes : f[1] = i + 1
                             THEN [slots[i] EXCEPT
                                     !.id = (CHOOSE f \in c.fixes : f[1] = i + 1)[2]]
                             ELSE slots[i]])
       /\ calls' = [calls EXCEPT ![p] = AfterLookup(c)]
       /\ UNCHANGED <<now, ticks, access, events, nextId, res, tokVars, users>>

\* listGroupsForUser, hasSlotAccess, and const now = new Date()
slotCallAccess(p) ==
    LET c == calls[p]
        ok == c.actor = NoActor
              \/ hasSlotAccess(c.slot, c.actor, groupSetOf(access, c.actor))
        nothing == c.op = "update" /\ ~(c.patch.hasRoom \/ c.patch.hasThr)
    IN /\ c.pc = "access"
       /\ calls' = [calls EXCEPT ![p] = IF ~ok THEN Finish(c, "forbidden")
                                        ELSE IF nothing THEN Finish(c, "ok")
                                        ELSE [c EXCEPT !.pc = "write", !.stamp = now]]
       /\ UNCHANGED <<now, ticks, slots, access, events, nextId, res, tokVars, users>>

\* the write of the operation, addressed by slot.sheet_row; a row number
\* past the last row of the sheet addresses an empty row
slotCallWrite(p) ==
    LET c == calls[p]
        r == c.slot.sheet_row
        r1 == IF c.patch.hasRoom THEN sheetsUpdate(slots, r, "room", c.patch.room) ELSE slots
        r2 == IF c.patch.hasThr
              THEN sheetsUpdate(r1, r, "thr", normalizeThreshold(c.patch.thr)) ELSE r1
    IN /\ c.pc = "write"
       /\ slots' = CASE c.op = "refresh" -> sheetsUpdate(slots, r, "last", c.stamp)
                     [] c.op = "update" -> r2
                     [] c.op = "delete" ->
                          IF r - 1 > Len(slots) THEN slots ELSE sheetsDeleteRow(slots, r)
       /\ calls' = [calls EXCEPT ![p] = [c EXCEPT !.pc = "log", !.order = WritesApplied + 1]]
       /\ UNCHANGED <<now, ticks, access, events, nextId, res, tokVars, users>>

ActionName(op) ==
    CASE op = "refresh" -> "REFRESH" [] op = "update" -> "UPDATE" [] op = "delete" -> "DELETE"

\* await logEvent(...); return { ok: true }
slotCallLog(p) ==
    LET c == calls[p]
        note == CASE c.op = "refresh" -> ""
                  [] c.op = "update" -> patchNote(c.patch)
                  [] c.op = "delete" -> c.slot.name
    IN /\ c.pc = "log"
       /\ events' = logEvent(events, now, c.id, ActionName(c.op), c.actor, note)
       /\ calls' = [calls EXCEPT ![p] = Finish(c, "ok")]
       /\ UNCHANGED <<now, ticks, slots, access, nextId, res, tokVars, users>>

\* the status of the response to POST /api/slots/:id/refresh and to
\* DELETE /api/slots/:id: json(...) answers 200, the route's catch answers
\* 403 for the message 'forbidden' and rethrows everything else, and the
\* catch around fetch answers 500
httpStatus(r) ==
    IF r.out = "ok" THEN 200
    ELSE IF r.out = "forbidden" THEN 403
    ELSE 500

\* return json(res): the answer leaves the worker
Respond ==
    /\ res # NoRes
    /\ res' = NoRes
    /\ UNCHANGED <<now, ticks, slots, access, events, nextId, tokVars, users, calls>>

\* the clock advances by step between two requests, at most limit times
Tick(step, limit) ==
    /\ res = NoRes
    /\ ticks < limit
    /\ now' = now + step
    /\ ticks' = ticks + 1
    /\ UNCHANGED <<slotVars, tokVars, users, calls>>

\* the clock: a day passes
TickDay == Tick(DAY, MaxTicks)

\* the clock: an hour passes
TickHour == Tick(HOUR, MaxTicks)

\* the sheets of a run hold at most rowCap slot rows and eventCap events:
\* a request that would write more is not taken
Within(rowCap, eventCap) == Len(slots') <= rowCap /\ Len(events') <= eventCap

----------------------------------------------------------------------------
(* Initial spreadsheet: rows already present when the worker starts -      *)
(* written by hand or by the owner-based version of the worker, which      *)
(* stored the bare owner id in column C.                                   *)

SeedRow(i, g) ==
    [id |-> i, name |-> "Old", grp |-> g, room |-> "Bath",
     thr |-> Whole(DefaultThreshold), last |-> T0]

SeedSlots ==
    {<<>>, <<SeedRow(SeedId, Tg(1))>>, <<SeedRow(SeedId, <<"num", 1>>)>>,
     <<SeedRow(SeedId, Fam)>>, <<SeedRow(NoId, <<"num", 1>>)>>}

Member(g, m) == [g |-> g, m |-> m]

SeedAccess ==
    {<<>>, <<Member(Tg(1), 2)>>, <<Member(Fam, 1), Member(Fam, 2)>>}

InitTok ==
    /\ issued = NoIssued
    /\ logins = 0
    /\ vres = NoOut

Init ==
    /\ now = T0
    /\ ticks = 0
    /\ slots \in SeedSlots
    /\ access \in SeedAccess
    /\ events = <<>>
    /\ nextId = 1
    /\ res = NoRes
    /\ InitTok
    /\ users = <<>>
    /\ calls = NoCalls

Thresholds == {JsNum(Whole(0))}
Patches == {Patch(FALSE, "", FALSE, JsMissing),
            Patch(TRUE, "Kitchen", FALSE, JsMissing),
            Patch(FALSE, "", TRUE, JsNum(Whole(5)))}
P5 == Patch(FALSE, "", TRUE, JsNum(Whole(5)))
OpActors == Actors \cup {NoActor}

ListSlots == \E a \in OpActors : listSlots(a)
CreateSlot ==
    \E n \in Names, o \in Actors, r \in Rooms, th \in Thresholds :
        createSlot(n, o, r, th) /\ Within(MaxRows, MaxEvents)
RefreshSlot ==
    \E i \in Ids, a \in Actors : refreshSlot(i, a) /\ Within(MaxRows, MaxEvents)
UpdateSlot ==
    \E i \in Ids, p \in Patches, a \in Actors :
        updateSlot(i, p, a) /\ Within(MaxRows, MaxEvents)
DeleteSlot ==
    \E i \in Ids, a \in Actors : deleteSlot(i, a) /\ Within(MaxRows, MaxEvents)

----------------------------------------------------------------------------
(* Token requests.  A presented token is the last signed token or a token  *)
(* derived from it.  vres holds the answer to the one request made since   *)
(* the last signing or clock step.                                         *)

SigLen == Len(hmacSign(ServerSecret, Hdr, Body(0, 0, 0)))
FlipPositions == {1, SigLen}
FlipBits == 0..7

FlipBit(c, k) == IF (c \div Pow2(k)) % 2 = 1 THEN c - Pow2(k) ELSE c + Pow2(k)

Desc(k, i, b) == [k |-> k, i |-> i, b |-> b]

\* tokens whose signature was produced with the signing key
Resigned(h, p, secret) == <<h, p, hmacSign(secret, h, p)>>

Variant(d, iss) ==
    LET h == iss.token[1]
        p == iss.token[2]
        sg == iss.token[3]
    IN CASE d.k = "same" -> iss.token
         [] d.k = "flip" -> <<h, p, [sg EXCEPT ![d.i] = FlipBit(sg[d.i], d.b)]>>
         [] d.k = "two" -> <<h, p>>
         [] d.k = "four" -> <<h, p, sg, sg>>
         [] d.k = "nosig" -> <<h, p, <<>>>>
         [] d.k = "sig1" -> <<h, p, <<sg[1]>>>>
         [] d.k = "late" -> <<h, [p EXCEPT !.exp = p.exp + DAY], sg>>
         [] d.k = "hdr" -> <<"none.JWT", p, sg>>
         [] d.k = "junk" -> Resigned(h, [p EXCEPT !.kind = "junk"], iss.secret)
         [] d.k = "bad64" -> Resigned(h, [p EXCEPT !.kind = "bad64"], iss.secret)
         [] d.k = "noexp" -> Resigned(h, [p EXCEPT !.hasExp = FALSE, !.exp = 0], iss.secret)
         [] d.k = "nosub" -> Resigned(h, [p EXCEPT !.sub = 0], iss.secret)
         [] OTHER -> <<>>

Flips == {Desc("flip", i, b) : i \in FlipPositions, b \in FlipBits}
Plain == {Desc(k, 0, 0) : k \in {"same", "two", "four", "nosig", "sig1", "late", "hdr",
                                  "junk", "bad64", "noexp", "nosub", "empty"}}
Descs == Flips \cup Plain
ReqDescs == {Desc(k, 0, 0) : k \in {"same", "sig1", "late", "junk", "nosub", "empty"}}
               \cup {Desc("flip", SigLen, b) : b \in {0, 1}}

Ttls == {-1, 0, 1, MagicTtl}

\* magicLink / jwtSignHS256 called at the current time
Sign ==
    \E sub \in Subs, secret \in Secrets, ttl \in Ttls :
        /\ issued' = [token |-> jwtSignHS256(sub, secret, ttl, now), sub |-> sub,
                      ttl |-> ttl, at |-> now, secret |-> secret]
        /\ logins' = 0
        /\ vres' = NoOut
        /\ UNCHANGED <<now, ticks, slotVars, users, calls>>

Verify ==
    \E d \in Descs, secret \in Secrets :
        /\ issued # NoIssued
        /\ vres = NoOut
        /\ d.k # "empty"
        /\ LET t == Variant(d, issued)
           IN vres' = Out("verify", t, secret, now, jwtVerifyHS256(t, secret, now), <<>>)
        /\ UNCHANGED <<now, ticks, slotVars, issued, logins, users, calls>>

Login ==
    \E d \in ReqDescs :
        /\ issued # NoIssued
        /\ vres = NoOut
        /\ LET t == Variant(d, issued)
               r == login(t, now)
           IN /\ vres' = Out("login", t, ServerSecret, now,
                             [VNull EXCEPT !.kind = r.status], r.cookie)
              /\ logins' = IF r.status = "302" /\ d.k = "same" /\ logins < MaxLogins
                           THEN logins + 1 ELSE logins
        /\ UNCHANGED <<now, ticks, slotVars, issued, users, calls>>

Session ==
    \E d \in ReqDescs :
        /\ issued # NoIssued
        /\ vres = NoOut
        /\ LET t == Variant(d, issued)
           IN vres' = Out("session", t, ServerSecret, now, parseSession(t, now), <<>>)
        /\ UNCHANGED <<now, ticks, slotVars, issued, logins, users, calls>>

\* the clock: a second passes
TickSec ==
    /\ ticks < MaxTokTicks
    /\ now' = now + 1
    /\ ticks' = ticks + 1
    /\ vres' = NoOut
    /\ UNCHANGED <<slotVars, issued, logins, users, calls>>

InitToken ==
    /\ now = T0
    /\ ticks = 0
    /\ slots = <<>>
    /\ access = <<>>
    /\ events = <<>>
    /\ nextId = 1
    /\ res = NoRes
    /\ InitTok
    /\ users = <<>>
    /\ calls = NoCalls

NextToken == Sign \/ Verify \/ Login \/ Session \/ TickSec

SpecToken == InitToken /\ [][NextToken]_vars

(* Freshness of one stored row: the sheet holds one slot whose threshold    *)
(* and timestamp cells are drawn from the values a sheet can hold, and the *)
(* row is listed as the clock advances.                                    *)

StoredThresholds ==
    {Whole(n) : n \in -1..MaxThr} \cup {<<1, 2>>, <<5, 2>>, NoNum}

StoredTimes ==
    {T0 - k * DAY - o : k \in (0 - MaxAhead)..MaxAge, o \in {0, DAY - 1}} \cup {BadTime}

CalcRow(thr, last) ==
    [id |-> SeedId, name |-> "Old", grp |-> Tg(1), room |-> "Bath", thr |-> thr, last |-> last]

InitCalc ==
    /\ now = T0
    /\ ticks = 0
    /\ \E thr \in StoredThresholds, last \in StoredTimes : slots = <<CalcRow(thr, last)>>
    /\ access = <<>>
    /\ events = <<>>
    /\ nextId = 1
    /\ res = NoRes
    /\ InitTok
    /\ users = <<>>
    /\ calls = NoCalls

NextCalc == ListSlots \/ Respond \/ TickDay

SpecCalc == InitCalc /\ [][NextCalc]_vars

(* Reminders: two stored rows, the first with cells drawn from the values  *)
(* a sheet can hold, and a users sheet.                                    *)

UserRow(u, tz, hour) == [id |-> u, tz |-> tz, hour |-> hour]

SeedUsers ==
    {<<UserRow(1, 3, 3)>>, <<UserRow(1, 3, 3), UserRow(2, 0, 1)>>, <<UserRow(1, 3, 10)>>}

InitRemind ==
    /\ now = T0
    /\ ticks = 0
    /\ \E thr \in StoredThresholds, last \in StoredTimes :
          slots = <<[CalcRow(thr, last) EXCEPT !.grp = <<"num", 1>>],
                    [SeedRow(SeedId + 1, Tg(2)) EXCEPT !.last = T0 - DefaultThreshold * DAY]>>
    /\ access = <<>>
    /\ events = <<>>
    /\ nextId = 1
    /\ res = NoRes
    /\ InitTok
    /\ users \in SeedUsers
    /\ calls = NoCalls

NextRemind ==
    runHourlyReminders \/ legacyRunHourlyReminders \/ Respond \/ TickDay \/ TickHour

SpecRemind == InitRemind /\ [][NextRemind]_vars

(* Thresholds: createSlot and updateSlot are called with every kind of     *)
(* value a request can carry for threshold_days.                           *)

ReqThresholds ==
    {JsNum(Whole(n)) : n \in -1..MaxReq} \cup {JsNum(<<1, 2>>), JsNum(<<5, 2>>), JsNaN, JsMissing}

CreateSlotAny ==
    \E n \in Names, o \in Actors, r \in Rooms, th \in ReqThresholds :
        createSlot(n, o, r, th) /\ Within(MaxRows, MaxEvents)

\* patch.threshold_days != null: a missing value is not written
UpdateSlotAny ==
    \E i \in Ids, a \in Actors, th \in ReqThresholds :
        updateSlot(i, Patch(FALSE, "", th # JsMissing, th), a) /\ Within(MaxRows, MaxEvents)

InitThreshold ==
    /\ now = T0
    /\ ticks = 0
    /\ slots \in {<<>>, <<SeedRow(SeedId, Tg(1))>>}
    /\ access = <<>>
    /\ events = <<>>
    /\ nextId = 1
    /\ res = NoRes
    /\ InitTok
    /\ users = <<>>
    /\ calls = NoCalls

NextThreshold == CreateSlotAny \/ UpdateSlotAny \/ Respond

SpecThreshold == InitThreshold /\ [][NextThreshold]_vars

(* Lifecycle: slots are created with the default threshold on an empty     *)
(* sheet, listed and refreshed while the days pass.                        *)

LifeCreate ==
    \E n \in Names, o \in Actors, r \in Rooms,
       th \in {JsNum(Whole(DefaultThreshold)), JsMissing} :
        createSlot(n, o, r, th) /\ Within(MaxLifeRows, MaxLifeEvents)

LifeRefresh ==
    \E i \in Ids, a \in Actors : refreshSlot(i, a) /\ Within(MaxLifeRows, MaxLifeEvents)

LifeTickDay == Tick(DAY, MaxLifeDays)

InitLife ==
    /\ now = T0
    /\ ticks = 0
    /\ slots = <<>>
    /\ access = <<>>
    /\ events = <<>>
    /\ nextId = 1
    /\ res = NoRes
    /\ InitTok
    /\ users = <<>>
    /\ calls = NoCalls

NextLife == LifeCreate \/ LifeRefresh \/ ListSlots \/ Respond \/ LifeTickDay

SpecLife == InitLife /\ [][NextLife]_vars

(* Frames: a sheet of two rows, one of them possibly entered by hand with  *)
(* a name and no id, is refreshed, updated, deleted from and listed.       *)

OldRow(i, g) == [SeedRow(i, g) EXCEPT !.last = T0 - DAY]

FrameSlots ==
    {<<OldRow(SeedId, Tg(1)), OldRow(SeedId + 1, Tg(2))>>,
     <<OldRow(SeedId, Tg(1)), OldRow(SeedId + 1, Fam)>>,
     <<OldRow(SeedId, Tg(1)), OldRow(NoId, <<"num", 1>>)>>,
     <<OldRow(NoId, <<"num", 1>>), OldRow(SeedId, Tg(1))>>}

FrameRefresh ==
    \E i \in Ids, a \in Actors : refreshSlot(i, a) /\ Within(Len(slots), MaxFrameEvents)

FrameUpdate ==
    \E i \in Ids, p \in Patches, a \in Actors :
        updateSlot(i, p, a) /\ Within(Len(slots), MaxFrameEvents)

FrameDelete ==
    \E i \in Ids, a \in Actors : deleteSlot(i, a) /\ Within(Len(slots), MaxFrameEvents)

InitFrame ==
    /\ now = T0
    /\ ticks = 0
    /\ slots \in FrameSlots
    /\ access \in SeedAccess
    /\ events = <<>>
    /\ nextId = 1
    /\ res = NoRes
    /\ InitTok
    /\ users = <<>>
    /\ calls = NoCalls

NextFrame == FrameRefresh \/ FrameUpdate \/ FrameDelete \/ ListSlots \/ Respond

SpecFrame == InitFrame /\ [][NextFrame]_vars

\* PATCH /api/slots/:id with every shape of body, repeated
FramePatches ==
    Patches \cup {Patch(FALSE, "", TRUE, JsNum(Whole(0))),
                  Patch(TRUE, "Kitchen", TRUE, JsNum(Whole(5)))}

PatchUpdate ==
    \E i \in Ids, p \in FramePatches, a \in Actors :
        updateSlot(i, p, a) /\ Within(Len(slots), MaxPatchEvents)

NextPatch == PatchUpdate \/ Respond

SpecPatch == InitFrame /\ [][NextPatch]_vars

\* POST /api/rooms/refresh of both workers, on sheets that hold slots of two
\* rooms, of two users and of a shared group, with and without ids
InRoom(row, room) == [row EXCEPT !.room = room]

RoomNames == {"Bath", "Kitchen"}

RoomSlots ==
    {<<OldRow(SeedId, Tg(1)), InRoom(OldRow(SeedId + 1, Tg(1)), "Kitchen")>>,
     <<OldRow(SeedId, Tg(1)), OldRow(SeedId + 1, Tg(1))>>,
     <<OldRow(SeedId, Fam), OldRow(SeedId + 1, Tg(2))>>,
     <<OldRow(SeedId, <<"num", 1>>), OldRow(SeedId + 1, <<"num", 2>>)>>,
     <<OldRow(SeedId, <<"num", 1>>), InRoom(OldRow(SeedId + 1, <<"num", 1>>), "Kitchen")>>,
     <<OldRow(SeedId, Tg(1)), InRoom(OldRow(NoId, Tg(2)), "Kitchen")>>,
     <<OldRow(NoId, <<"num", 2>>), OldRow(NoId, <<"num", 1>>)>>}

RefreshByRoom ==
    \E a \in Actors, room \in RoomNames :
        refreshByRoom(a, room) /\ Within(Len(slots), MaxRoomEvents)

LegacyRefreshByRoom ==
    \E a \in Actors, room \in RoomNames :
        legacyRefreshByRoom(a, room) /\ Within(Len(slots), MaxRoomEvents)

InitRoom ==
    /\ now = T0
    /\ ticks = 0
    /\ slots \in RoomSlots
    /\ access \in SeedAccess
    /\ events = <<>>
    /\ nextId = 1
    /\ res = NoRes
    /\ InitTok
    /\ users = <<>>
    /\ calls = NoCalls

NextRoom == RefreshByRoom \/ LegacyRefreshByRoom \/ Respond \/ TickDay

SpecRoom == InitRoom /\ [][NextRoom]_vars

\* the four mutations, each with all its storage calls answered and with
\* one of them failing
AuditCreate ==
    \E n \in Names, o \in Actors, r \in Rooms, th \in Thresholds :
        /\ nextId <= MaxAuditCreates
        /\ createSlot(n, o, r, th) /\ Within(MaxAuditRows, MaxAuditEvents)

AuditRefresh ==
    \E i \in Ids, a \in Actors : refreshSlot(i, a) /\ Within(MaxAuditRows, MaxAuditEvents)

AuditUpdate ==
    \E i \in Ids, p \in Patches, a \in Actors :
        updateSlot(i, p, a) /\ Within(MaxAuditRows, MaxAuditEvents)

AuditDelete ==
    \E i \in Ids, a \in Actors : deleteSlot(i, a) /\ Within(MaxAuditRows, MaxAuditEvents)

CreateThrows ==
    \E n \in Names, o \in Actors, r \in Rooms, th \in Thresholds, f \in FailPoints :
        /\ nextId <= MaxAuditCreates
        /\ createSlotThrows(n, o, r, th, f) /\ Within(MaxAuditRows, MaxAuditEvents)

RefreshThrows ==
    \E i \in Ids, a \in Actors, f \in FailPoints : refreshSlotThrows(i, a, f)

UpdateThrows ==
    \E i \in Ids, p \in Patches, a \in Actors, f \in FailPoints :
        updateSlotThrows(i, p, a, f)

DeleteThrows ==
    \E i \in Ids, a \in Actors, f \in FailPoints : deleteSlotThrows(i, a, f)

NextAudit ==
    \/ AuditCreate \/ AuditRefresh \/ AuditUpdate \/ AuditDelete
    \/ CreateThrows \/ RefreshThrows \/ UpdateThrows \/ DeleteThrows
    \/ Respond

AuditSlots ==
    {<<OldRow(SeedId, Tg(1)), OldRow(SeedId + 1, Fam)>>,
     <<OldRow(SeedId, Tg(1)), OldRow(NoId, <<"num", 1>>)>>}

InitAudit ==
    /\ now = T0
    /\ ticks = 0
    /\ slots \in AuditSlots
    /\ access \in SeedAccess
    /\ events = <<>>
    /\ nextId = 1
    /\ res = NoRes
    /\ InitTok
    /\ users = <<>>
    /\ calls = NoCalls

SpecAudit == InitAudit /\ [][NextAudit]_vars

\* two requests served concurrently: refresh, update or delete of a stored
\* slot, on a sheet of three slots and on a sheet with a row without an id
RaceSlots ==
    {<<OldRow(SeedId, Fam), OldRow(SeedId + 1, Tg(2)), OldRow(SeedId + 2, Tg(1))>>,
     <<OldRow(SeedId, Fam), OldRow(NoId, <<"num", 1>>)>>}

RaceIds == {SeedId, SeedId + 1}

RaceOps == {"refresh", "update", "delete"}

RaceRead ==
    \E p \in Procs, op \in RaceOps, i \in RaceIds, a \in Actors :
        slotCallRead(p, op, i, a, IF op = "update" THEN P5 ELSE Idle.patch)

RaceFix == \E p \in Procs : slotCallFix(p)

RaceAccess == \E p \in Procs : slotCallAccess(p)

RaceWrite == \E p \in Procs : slotCallWrite(p)

RaceLog == \E p \in Procs : slotCallLog(p)

RaceTick == Tick(HOUR, MaxRaceTicks)

InitRace ==
    /\ now = T0
    /\ ticks = 0
    /\ slots \in RaceSlots
    /\ access = <<Member(Fam, 1), Member(Fam, 2)>>
    /\ events = <<>>
    /\ nextId = 1
    /\ res = NoRes
    /\ InitTok
    /\ users = <<>>
    /\ calls = [p \in Procs |-> Idle]

NextRace == RaceRead \/ RaceFix \/ RaceAccess \/ RaceWrite \/ RaceLog \/ RaceTick

SpecRace == InitRace /\ [][NextRace]_vars

\* a reminder tick served while a slot is deleted
TickSlots ==
    {<<OldRow(SeedId, Tg(1)), OldRow(NoId, <<"num", 1>>), OldRow(SeedId + 1, Tg(2))>>,
     <<OldRow(SeedId, Tg(1)), OldRow(SeedId + 1, Tg(2))>>}

TickRemind == \E p \in Procs : reminderCallRead(p)

TickDelete ==
    \E p \in Procs, i \in RaceIds, a \in Actors :
        slotCallRead(p, "delete", i, a, Idle.patch)

InitTickRace ==
    /\ now = T0
    /\ ticks = 0
    /\ slots \in TickSlots
    /\ access \in SeedAccess
    /\ events = <<>>
    /\ nextId = 1
    /\ res = NoRes
    /\ InitTok
    /\ users \in SeedUsers
    /\ calls = [p \in Procs |-> Idle]

NextTickRace ==
    TickRemind \/ TickDelete \/ RaceFix \/ RaceAccess \/ RaceWrite \/ RaceLog \/ RaceTick

SpecTickRace == InitTickRace /\ [][NextTickRace]_vars

\* the access resolver on access sheets with no row, one row, a shared
\* group, two groups of one member, and a row whose group cell is empty
AccessTables ==
    SeedAccess \cup {<<Member(Fam, 1), Member(Tg(2), 1)>>,
                     <<Member(NoGroup, 1)>>,
                     <<Member(Tg(1), 1), Member(Tg(1), 1)>>}

ListGroups == \E u \in Actors, ensure \in BOOLEAN : listGroups(u, ensure)

InitAccess ==
    /\ now = T0
    /\ ticks = 0
    /\ slots \in FrameSlots
    /\ access \in AccessTables
    /\ events = <<>>
    /\ nextId = 1
    /\ res = NoRes
    /\ InitTok
    /\ users = <<>>
    /\ calls = NoCalls

NextAccess == ListGroups \/ ListSlots \/ Respond

SpecAccess == InitAccess /\ [][NextAccess]_vars

\* POST /api/slots/:id/refresh and the refresh:<id> callback of the older
\* worker, by every actor on every stored id
LegacyRefresh ==
    \E i \in Ids, a \in Actors :
        legacyRefreshSlot(i, a) /\ Within(Len(slots), MaxRoomEvents)

NextLegacy == LegacyRefresh \/ Respond \/ TickDay

SpecLegacy == InitRoom /\ [][NextLegacy]_vars

(* First contact: ensureUser, upsertUser and createSlot as sequences of    *)
(* awaited sheet calls; calls[p] holds the handler's locals between them.  *)

NoContact ==
    [pc |-> "idle", op |-> "none", actor |-> NoActor, rowIndex |-> 0, hour |-> 0,
     group_id |-> NoGroup]

\* findRowById(env, 'users', id) / rows.some(r => r[0] === String(id)):
\* the number of the first row holding the id, 0 when there is none
userRowIndex(us, u) ==
    IF \E i \in 1..Len(us) : us[i].id = u
    THEN CHOOSE i \in 1..Len(us) : us[i].id = u /\ \A j \in 1..(i - 1) : us[j].id # u
    ELSE 0

\* the handler is entered; createSlot goes straight to getPrimaryGroupId
contactStart(p, op, actor, hour) ==
    /\ calls[p].pc = "idle"
    /\ calls' = [calls EXCEPT ![p] =
                    [NoContact EXCEPT !.pc = IF op = "createSlot" THEN "groups" ELSE "users",
                                      !.op = op, !.actor = actor, !.hour = hour]]
    /\ UNCHANGED <<now, ticks, slotVars, tokVars, users>>

\* await sheetsGet(env, 'users!A2:C')
contactReadUsers(p) ==
    LET c == calls[p]
        rowIndex == userRowIndex(users, c.actor)
    IN /\ c.pc = "users"
       /\ calls' = [calls EXCEPT ![p] =
                       [c EXCEPT !.rowIndex = rowIndex,
                                 !.pc = IF rowIndex = 0 THEN "appendUser"
                                        ELSE IF c.op = "upsertUser" THEN "updateUser"
                                        ELSE "groups"]]
       /\ UNCHANGED <<now, ticks, slotVars, tokVars, users>>

\* await sheetsAppend(env, 'users!A:C', [[id, tz, hour]])
contactAppendUser(p) ==
    LET c == calls[p]
    IN /\ c.pc = "appendUser"
       /\ users' = Append(users, UserRow(c.actor, DefaultTz, c.hour))
       /\ calls' = [calls EXCEPT ![p] = [c EXCEPT !.pc = "groups"]]
       /\ UNCHANGED <<now, ticks, slotVars, tokVars>>

\* await sheetsUpdate(env, [users!C<rowIndex>])
contactUpdateUser(p) ==
    LET c == calls[p]
    IN /\ c.pc = "updateUser"
       /\ users' = [users EXCEPT ![c.rowIndex].hour = c.hour]
       /\ calls' = [calls EXCEPT ![p] = [c EXCEPT !.pc = "groups"]]
       /\ UNCHANGED <<now, ticks, slotVars, tokVars>>

\* listGroupsForUser(ensure: true) up to its sheetsGet(env, ACCESS_RANGE)
contactReadGroups(p) ==
    LET c == calls[p]
        matches == Matches(access, c.actor)
    IN /\ c.pc = "groups"
       /\ calls' = [calls EXCEPT ![p] =
                       IF Len(matches) = 0 THEN [c EXCEPT !.pc = "appendGroup"]
                       ELSE [c EXCEPT !.group_id = matches[1],
                                      !.pc = IF c.op = "createSlot" THEN "appendSlot"
                                             ELSE "done"]]
       /\ UNCHANGED <<now, ticks, slotVars, tokVars, users>>

\* await sheetsAppend(env, ACCESS_APPEND_RANGE, [[group_id, desired]])
contactAppendGroup(p) ==
    LET c == calls[p]
    IN /\ c.pc = "appendGroup"
       /\ access' = sheetsAppend(access, Member(Tg(c.actor), c.actor))
       /\ calls' = [calls EXCEPT ![p] =
                       [c EXCEPT !.group_id = Tg(c.actor),
                                 !.pc = IF c.op = "createSlot" THEN "appendSlot"
                                        ELSE "done"]]
       /\ UNCHANGED <<now, ticks, slots, events, nextId, res, tokVars, users>>

\* createSlot: await sheetsAppend(env, SLOT_APPEND_RANGE, ...)
contactAppendSlot(p) ==
    LET c == calls[p]
    IN /\ c.pc = "appendSlot"
       /\ slots' = sheetsAppend(slots,
                        [id |-> nextId, name |-> "Hand", grp |-> c.group_id, room |-> "",
                         thr |-> normalizeThreshold(JsNum(Whole(DefaultThreshold))),
                         last |-> now])
       /\ nextId' = nextId + 1
       /\ calls' = [calls EXCEPT ![p] = [c EXCEPT !.rowIndex = nextId, !.pc = "log"]]
       /\ UNCHANGED <<now, ticks, access, events, res, tokVars, users>>

\* createSlot: await logEvent(env, { action: 'CREATE', ... })
contactLog(p) ==
    LET c == calls[p]
    IN /\ c.pc = "log"
       /\ events' = logEvent(events, now, c.rowIndex, "CREATE", c.actor, "Hand")
       /\ calls' = [calls EXCEPT ![p] = [c EXCEPT !.pc = "done"]]
       /\ UNCHANGED <<now, ticks, slots, access, nextId, res, tokVars, users>>

ContactOps == {"ensureUser", "upsertUser", "createSlot"}

ContactStart ==
    \E p \in Procs, op \in ContactOps, actor \in Actors :
        contactStart(p, op, actor, IF op = "upsertUser" THEN 1 ELSE DefaultNotifyHour)
ContactReadUsers == \E p \in Procs : contactReadUsers(p)
ContactAppendUser == \E p \in Procs : contactAppendUser(p)
ContactUpdateUser == \E p \in Procs : contactUpdateUser(p)
ContactReadGroups == \E p \in Procs : contactReadGroups(p)
ContactAppendGroup == \E p \in Procs : contactAppendGroup(p)
ContactAppendSlot == \E p \in Procs : contactAppendSlot(p)
ContactLog == \E p \in Procs : contactLog(p)

\* actor 1 is unknown to both sheets; actor 2 may be registered already
InitContact ==
    /\ now = T0
    /\ ticks = 0
    /\ slots = <<>>
    /\ access \in {<<>>, <<Member(Fam, 2)>>}
    /\ events = <<>>
    /\ nextId = 1
    /\ res = NoRes
    /\ InitTok
    /\ users \in {<<>>, <<UserRow(2, 0, 1)>>}
    /\ calls = [p \in Procs |-> NoContact]

NextContact ==
    \/ ContactStart \/ ContactReadUsers \/ ContactAppendUser \/ ContactUpdateUser
    \/ ContactReadGroups \/ ContactAppendGroup \/ ContactAppendSlot \/ ContactLog

SpecContact == InitContact /\ [][NextContact]_vars

(* Owners and their slots: the slots sheet starts empty, the access sheet  *)
(* holds the memberships registered by hand; a group key is any string,    *)
(* among them one made of digits only.                                     *)

OwnAccess ==
    {<<>>, <<Member(Fam, 1)>>, <<Member(Fam, 1), Member(Tg(2), 1)>>,
     <<Member(NoGroup, 1), Member(Fam, 2)>>, <<Member(<<"num", 2>>, 1)>>}

OwnIds == 1..MaxOwnRows

OwnCreate ==
    \E o \in Actors :
        createSlot("Hand", o, "Bath", JsMissing) /\ Within(MaxOwnRows, MaxOwnEvents)
OwnList == \E a \in Actors : listSlots(a)
OwnRefresh ==
    \E i \in OwnIds, a \in Actors : refreshSlot(i, a) /\ Within(MaxOwnRows, MaxOwnEvents)
OwnUpdate ==
    \E i \in OwnIds, a \in Actors : updateSlot(i, P5, a) /\ Within(MaxOwnRows, MaxOwnEvents)
OwnDelete ==
    \E i \in OwnIds, a \in Actors : deleteSlot(i, a) /\ Within(MaxOwnRows, MaxOwnEvents)

InitOwn ==
    /\ now = T0
    /\ ticks = 0
    /\ slots = <<>>
    /\ access \in OwnAccess
    /\ events = <<>>
    /\ nextId = 1
    /\ res = NoRes
    /\ InitTok
    /\ users = <<>>
    /\ calls = NoCalls

NextOwn == OwnCreate \/ OwnList \/ OwnRefresh \/ OwnUpdate \/ OwnDelete \/ Respond

SpecOwn == InitOwn /\ [][NextOwn]_vars

\* one magic link, and what its holder can obtain from /login with it and
\* with the cookies /login hands out; vres.cookie is the cookie held
RenewLogin ==
    \E d \in ReqDescs :
        LET t == Variant(d, issued)
            r == login(t, now)
        IN /\ vres' = Out("login", t, ServerSecret, now, [VNull EXCEPT !.kind = r.status],
                          IF r.status = "302" THEN r.cookie ELSE vres.cookie)
           /\ UNCHANGED <<now, ticks, slotVars, issued, logins, users, calls>>

\* GET /login?token=<the sid cookie>
Relogin ==
    LET r == login(vres.cookie, now)
    IN /\ vres.cookie # <<>>
       /\ vres' = Out("relogin", vres.cookie, ServerSecret, now,
                      [VNull EXCEPT !.kind = r.status],
                      IF r.status = "302" THEN r.cookie ELSE vres.cookie)
       /\ UNCHANGED <<now, ticks, slotVars, issued, logins, users, calls>>

RenewTick == Tick(DAY, MaxRenewTicks) \/ Tick(HOUR, MaxRenewTicks)

InitRenew ==
    /\ now = T0
    /\ ticks = 0
    /\ slots = <<>>
    /\ access = <<>>
    /\ events = <<>>
    /\ nextId = 1
    /\ res = NoRes
    /\ \E sub \in Subs :
          issued = [token |-> jwtSignHS256(sub, ServerSecret, MagicTtl, T0), sub |-> sub,
                    ttl |-> MagicTtl, at |-> T0, secret |-> ServerSecret]
    /\ logins = 0
    /\ vres = NoOut
    /\ users = <<>>
    /\ calls = NoCalls

NextRenew == RenewLogin \/ Relogin \/ RenewTick

SpecRenew == InitRenew /\ [][NextRenew]_vars

Next == ListSlots \/ CreateSlot \/ RefreshSlot \/ UpdateSlot \/ DeleteSlot \/ Respond \/ TickDay

Spec == Init /\ [][Next]_vars

----------------------------------------------------------------------------
(* Properties of the slot registry (Spec)                                  *)

MutOps == {"refresh", "update", "delete"}

\* the group a stored row belongs to, read off the raw cell
RowGroup(row) == IF row.grp[1] = "num" THEN Tg(row.grp[2]) ELSE row.grp

MemberOf(acc, u) == {acc[j].g : j \in {k \in 1..Len(acc) : acc[k].m = u}}

EffGroups(acc, u) == IF MemberOf(acc, u) = {} THEN {Tg(u)} ELSE MemberOf(acc, u)

CanAccess(row, acc, u) ==
    \/ RowGroup(row) # NoGroup /\ RowGroup(row) \in EffGroups(acc, u)
    \/ row.grp[1] = "num" /\ row.grp[2] = u

SlotRows(rows) == {i \in 1..Len(rows) : rows[i].id # NoId}

HasRow(rows, id) == \E i \in SlotRows(rows) : rows[i].id = id

RowOf(rows, id) ==
    CHOOSE i \in SlotRows(rows) :
        rows[i].id = id /\ \A j \in SlotRows(rows) : j < i => rows[j].id # id

\* a step of refreshSlot, updateSlot or deleteSlot called with an actor
MutStep == ticks' = ticks /\ res'.op \in MutOps /\ res'.actor # NoActor

\* the target exists and the actor has no access to it
NoAccessCase ==
    /\ MutStep
    /\ HasRow(slots, res'.id)
    /\ ~CanAccess(slots[RowOf(slots, res'.id)], access, res'.actor)

\* nothing changed in the sheet but the ids given to rows that had a name and no id
OnlyBackfill(old, new) ==
    /\ Len(new) = Len(old)
    /\ \A i \in 1..Len(old) :
          IF old[i].id = NoId /\ old[i].name # ""
          THEN new[i].id # NoId /\ new[i] = [old[i] EXCEPT !.id = new[i].id]
          ELSE new[i] = old[i]

ListedIds == {res.list[k].id : k \in 1..Len(res.list)}

Stranger(u, A) == u \notin {A, NoActor} /\ Tg(A) \notin MemberOf(access, u)

\* C2 as stated: a slot of group tg:A is listed for A and for every member
\* of tg:A; an actor B other than A that shares no group with the slot
\* neither sees it in a listing nor can refresh it (forbidden).
C2_SelfGroupVisibility ==
    \A i \in SlotRows(slots), A \in Actors :
        RowGroup(slots[i]) = Tg(A) =>
            /\ (res.op = "list" /\ (res.actor = A \/ Tg(A) \in MemberOf(access, res.actor)))
                  => slots[i].id \in ListedIds
            /\ (res.op = "list" /\ Stranger(res.actor, A)) => slots[i].id \notin ListedIds
            /\ (res.op = "refresh" /\ res.id = slots[i].id /\ Stranger(res.actor, A))
                  => res.out = "forbidden"

\* C2 amended: a slot of group tg:A is listed for every member of tg:A, and
\* for A when A has no registered membership at all, is a member of tg:A, or
\* the row is a legacy row whose numeric owner is A; an actor B other than A
\* that is not a member of tg:A neither sees it nor can refresh it.
C2_SelfGroupVisibilityAmended ==
    \A i \in SlotRows(slots), A \in Actors :
        RowGroup(slots[i]) = Tg(A) =>
            /\ (res.op = "list" /\ Tg(A) \in MemberOf(access, res.actor))
                  => slots[i].id \in ListedIds
            /\ (res.op = "list" /\ res.actor = A
                  /\ (MemberOf(access, A) = {} \/ slots[i].grp = <<"num", A>>))
                  => slots[i].id \in ListedIds
            /\ (res.op = "list" /\ Stranger(res.actor, A)) => slots[i].id \notin ListedIds
            /\ (res.op = "refresh" /\ res.id = slots[i].id /\ Stranger(res.actor, A))
                  => res.out = "forbidden"

C2_Witness ==
    /\ res.op = "refresh"
    /\ res.out = "forbidden"
    /\ HasRow(slots, res.id)
    /\ \E A \in Actors : RowGroup(slots[RowOf(slots, res.id)]) = Tg(A) /\ Stranger(res.actor, A)

\* the rows an actor may see, in sheet order
VisibleRows(u) ==
    {i \in SlotRows(slots) : u = NoActor \/ CanAccess(slots[i], access, u)}

NthOf(S, k) == CHOOSE i \in S : Cardinality({j \in S : j < i}) = k - 1

\* C3: a listing never fails; for an actor it holds, in sheet order, exactly
\* the slots the actor has access to, for no actor every slot, each with
\* its stored fields and the score and status computed at listing time.
C3_ListingIsFilteredTable ==
    res.op = "list" =>
        /\ res.out = "ok"
        /\ Len(res.list) = Cardinality(VisibleRows(res.actor))
        /\ \A k \in 1..Len(res.list) :
              LET row == slots[NthOf(VisibleRows(res.actor), k)]
                  e == res.list[k]
                  age == (res.at - row.last) \div DAY
              IN /\ e.id = row.id /\ e.name = row.name /\ e.room = row.room
                 /\ e.group_id = RowGroup(row)
                 /\ e.threshold_days = row.thr /\ e.last_change_at = row.last
                 /\ e.d = age
                 /\ e.score = calcStatus(row.thr, row.last, res.at).score
                 /\ e.status = calcStatus(row.thr, row.last, res.at).status
                 /\ e.status \in {"OK", "WARN", "EXPIRED"}

C3_Witness ==
    /\ res.op = "list"
    /\ res.actor # NoActor
    /\ Len(res.list) > 0
    /\ Len(res.list) < Cardinality(SlotRows(slots))

\* the id matches no row of the table read at operation time
NoMatchCase ==
    /\ ticks' = ticks
    /\ res'.op \in MutOps
    /\ ~HasRow(FixedRows(slots, nextId), res'.id)

----------------------------------------------------------------------------
(* Properties of the token service (SpecToken)                             *)

\* C5: jwtVerifyHS256 answers null, and never throws, for every invalid
\* token, so that /login and parseSession answer "no identity" (401, null)
\* and never an internal error.
C5_InvalidTokenIsNoIdentity ==
    /\ vres.op = "verify" => vres.kind \in {"null", "payload"}
    /\ vres.op = "login" => vres.kind \in {"302", "401", "400"}
    /\ vres.op = "session" => vres.kind \in {"uid", "null"}

OneBitApart(s1, s2) ==
    /\ Len(s1) = Len(s2)
    /\ \E i \in 1..Len(s1) :
          /\ \E b \in FlipBits : s2[i] = FlipBit(s1[i], b)
          /\ \A j \in 1..Len(s1) : j # i => s1[j] = s2[j]

\* C6: a token whose signature segment differs from a valid token's in one
\* bit, and a token verified under another secret, is rejected; a payload
\* is returned only when the supplied signature is the recomputed MAC.
C6_TamperedSignatureRejected ==
    (vres.op = "verify" /\ vres.kind = "payload") =>
        /\ vres.tok[3] = hmacSign(vres.secret, vres.tok[1], vres.tok[2])
        /\ vres.secret = issued.secret
        /\ ~(vres.tok[1] = issued.token[1] /\ vres.tok[2] = issued.token[2]
             /\ OneBitApart(issued.token[3], vres.tok[3]))

IsIssuedVerify ==
    /\ vres.op = "verify"
    /\ Len(vres.tok) = 3
    /\ vres.tok = issued.token
    /\ vres.secret = issued.secret

\* C7: a correctly signed token is accepted at every time up to and
\* including its exp and rejected at every later time; a token issued with
\* ttl = -1 is rejected at the time it is issued.
C7_ExpiryBoundary ==
    IsIssuedVerify =>
        /\ (vres.kind = "payload") <=> (vres.at <= issued.token[2].exp)
        /\ vres.kind \in {"payload", "null"}
        /\ (issued.ttl = -1 /\ vres.at = issued.at) => vres.kind = "null"

C7_Witness ==
    /\ IsIssuedVerify
    /\ issued.ttl > 0
    /\ vres.at = issued.token[2].exp + 1
    /\ vres.kind = "null"

C9_ExpIsNowPlusTtl ==
    issued # NoIssued =>
        /\ issued.token[2].iat = issued.at
        /\ issued.token[2].exp = issued.at + issued.ttl

IsMagicLogin ==
    /\ vres.op = "login"
    /\ Len(vres.tok) = 3
    /\ vres.tok = issued.token
    /\ issued.secret = ServerSecret

----------------------------------------------------------------------------
(* Properties of the freshness calculation (SpecCalc)                      *)

\* whole days between the stored timestamp and the listing
AgeOf(e, at) == (at - e.last_change_at) \div DAY

\* a listed slot with threshold >= 1 and a timestamp not after the listing
CalcCase(e, at) ==
    /\ e.last_change_at # BadTime
    /\ e.last_change_at <= at
    /\ Geq(e.threshold_days, Whole(1))

\* the score equals the fraction q
ScoreIs(e, q) == e.score[1] * q[2] = q[1] * e.score[2]
ScoreGeq(e, n) == e.score[1] >= n * e.score[2]

C12_CalcStatusBounded ==
    res.op = "list" =>
        /\ res.out = "ok"
        /\ \A k \in 1..Len(res.list) :
              /\ res.list[k].d >= 0
              /\ ScoreGeq(res.list[k], 0)
              /\ res.list[k].score[1] <= 100 * res.list[k].score[2]

----------------------------------------------------------------------------
(* Properties of the reminders (SpecRemind)                                *)

RowThreshold(row) == IF row.thr = NoNum THEN Whole(DefaultThreshold) ELSE row.thr
RowAge(row, at) == IF row.last = BadTime THEN 0 ELSE (at - row.last) \div DAY

\* the rows a user sees: by group in the group-based worker, by owner in the
\* owner-based one
SeenBy(u, op) ==
    {i \in SlotRows(slots) :
        IF op = "remind" THEN CanAccess(slots[i], access, u)
        ELSE slots[i].grp = <<"num", u>>}

OverdueIds(u, op, at) ==
    {slots[i].id : i \in {j \in SeenBy(u, op) :
                              Geq(Whole(RowAge(slots[j], at)), RowThreshold(slots[j]))}}

MessageIds(m) == {m.slots[k].id : k \in 1..Len(m.slots)}

\* C13: the reminder sent to a user holds exactly the slots visible to the
\* user whose age in days is at least their threshold; a slot that is WARN
\* or EXPIRED and younger than its threshold is not in it.
C13_ReminderIsBinaryTest ==
    res.op \in {"remind", "legacyRemind"} =>
        /\ \A k \in 1..Len(res.list) :
              MessageIds(res.list[k]) = OverdueIds(res.list[k].to, res.op, res.at)
        /\ \A i \in 1..Len(users) :
              (hourInTz(res.at, users[i].tz) = users[i].hour
                 /\ OverdueIds(users[i].id, res.op, res.at) # {})
                 => \E k \in 1..Len(res.list) : res.list[k].to = users[i].id

\* the same for the group-based worker alone
ReminderIsBinaryTestInWorker ==
    res.op = "remind" =>
        /\ \A k \in 1..Len(res.list) :
              MessageIds(res.list[k]) = OverdueIds(res.list[k].to, res.op, res.at)
        /\ \A i \in 1..Len(users) :
              (hourInTz(res.at, users[i].tz) = users[i].hour
                 /\ OverdueIds(users[i].id, res.op, res.at) # {})
                 => \E k \in 1..Len(res.list) : res.list[k].to = users[i].id

----------------------------------------------------------------------------
(* Properties of the stored threshold (SpecThreshold)                      *)

\* C14: after any sequence of createSlot and updateSlot calls with
\* arbitrary requested thresholds (zero, negative, fractional, non-numeric,
\* missing), the threshold stored for every slot is an integer >= 1.
C14_StoredThresholdIsInteger ==
    \A i \in 1..Len(slots) :
        /\ slots[i].thr # NoNum
        /\ IsInteger(slots[i].thr)
        /\ Geq(slots[i].thr, Whole(1))

\* what does hold: the stored threshold is a number >= 1
StoredThresholdAtLeastOne ==
    \A i \in 1..Len(slots) : slots[i].thr # NoNum /\ Geq(slots[i].thr, Whole(1))

----------------------------------------------------------------------------
(* Properties of the lifecycle (SpecLife)                                  *)

\* the time of the last event of the slot, and whether that event is action
LastEventIs(id, action, ts) ==
    \E k \in 1..Len(events) :
        /\ events[k].slot_id = id /\ events[k].action = action /\ events[k].ts = ts
        /\ \A j \in (k + 1)..Len(events) : events[j].slot_id # id

Fresh(e) == e.d = 0 /\ ScoreIs(e, Whole(100)) /\ e.status = "OK"

\* C15: a slot created with threshold 3 has age 0, score 100 and status OK
\* at creation; listed 4 days after its creation with no refresh in between
\* it has age 4, score 0 and status EXPIRED; listed right after a
\* successful refresh it has age 0, score 100 and status OK again.
C15_Lifecycle ==
    /\ (res.op = "create" /\ res.list[1].threshold_days = Whole(3)) => Fresh(res.list[1])
    /\ res.op = "list" =>
          \A k \in 1..Len(res.list) :
              LET e == res.list[k]
              IN e.threshold_days = Whole(3) =>
                   /\ LastEventIs(e.id, "CREATE", res.at - 4 * DAY) =>
                         (e.d = 4 /\ ScoreIs(e, Whole(0)) /\ e.status = "EXPIRED")
                   /\ LastEventIs(e.id, "REFRESH", res.at) => Fresh(e)

\* a slot created, left 4 days, refreshed and listed
C15_Witness ==
    /\ res.op = "list"
    /\ Len(res.list) = 1
    /\ Len(events) = 2
    /\ events[1].action = "CREATE" /\ events[1].ts = res.at - 4 * DAY
    /\ events[2].action = "REFRESH" /\ events[2].ts = res.at
    /\ events[1].slot_id = res.list[1].id /\ events[2].slot_id = res.list[1].id
    /\ Fresh(res.list[1])

----------------------------------------------------------------------------
(* Frame properties of refresh, update and delete (SpecFrame)              *)

\* a successful step of op on a slot that is stored under its id
OkStep(op) ==
    /\ res = NoRes
    /\ res'.op = op
    /\ res'.out = "ok"
    /\ HasRow(slots, res'.id)

\* row i got a fresh id and nothing else
Backfilled(old, new) == old.id = NoId /\ old.name # "" /\ new.id # NoId
                        /\ new = [old EXCEPT !.id = new.id]

Without(rows, i) == [k \in 1..(Len(rows) - 1) |-> IF k < i THEN rows[k] ELSE rows[k + 1]]

WasDeleted(id) ==
    \E k \in 1..Len(events) : events[k].action = "DELETE" /\ events[k].slot_id = id

\* after a delete of the id: it is in no listing, and refresh, update and
\* delete of it fail with not found
GoneForGood ==
    /\ (res = NoRes /\ res'.op \in MutOps /\ WasDeleted(res'.id))
          => res'.out = "slot not found"
    /\ (res = NoRes /\ res'.op = "list")
          => \A k \in 1..Len(res'.list) : ~WasDeleted(res'.list[k].id)

Clamped(x) == IF x.k = "num" /\ Geq(x.v, Whole(1)) THEN x.v ELSE Whole(1)

IsUpdateEvent(e, id, actor, p) ==
    e.action = "UPDATE" /\ e.slot_id = id /\ e.actor = actor /\ e.note = patchNote(p)

----------------------------------------------------------------------------
(* Refresh of a room (SpecRoom)                                             *)

RoomStep(op) == res = NoRes /\ res'.op = op

\* the events appended by the step are one REFRESH event per row of hit,
\* each with the actor and the note room:<room>
RoomEvents(hit, room, a) ==
    LET new == {k \in 1..Len(events') : k > Len(events)}
    IN /\ Len(events') = Len(events) + Cardinality(hit)
       /\ SubSeq(events', 1, Len(events)) = events
       /\ \A k \in new : /\ events'[k].action = "REFRESH"
                          /\ events'[k].actor = a
                          /\ events'[k].note = "room:" \o room
                          /\ events'[k].ts = now
       /\ \A i \in hit : Cardinality({k \in new : events'[k].slot_id = slots'[i].id}) = 1

\* exactly the rows of hit get the timestamp, every other row is untouched,
\* updated counts them, and nothing is written when hit is empty
RoomFrame(hit, room, a) ==
    /\ Len(slots') = Len(slots)
    /\ \A i \in 1..Len(slots) :
          slots'[i] = IF i \in hit THEN [slots[i] EXCEPT !.last = now] ELSE slots[i]
    /\ res'.list = Updated(Cardinality(hit))
    /\ RoomEvents(hit, room, a)

\* the rows of the room the actor can see, in the worker and in the older one
RoomHit(room, a) ==
    {i \in 1..Len(slots) :
        slots[i].name # "" /\ slots[i].room = room /\ CanAccess(slots[i], access, a)}

LegacyRoomHit(room, a) ==
    {i \in 1..Len(slots) : slots[i].room = room /\ slots[i].grp = <<"num", a>>}

\* C19: refreshByRoom(actor, room) sets last_change_at of exactly the slots
\* visible to the actor whose room equals the given name, leaves every other
\* slot untouched, returns updated = the number of timestamps written and
\* appends one REFRESH event per refreshed slot with note room:<room>; when
\* no slot matches it returns updated = 0 and writes nothing.  Stated of
\* refreshByRoom of the worker and of the older worker.
C19_RefreshByRoom ==
    [][/\ RoomStep("refreshRoom") =>
            \A room \in RoomNames :
                refreshByRoom(res'.actor, room)
                    => RoomFrame(RoomHit(room, res'.actor), room, res'.actor)
       /\ RoomStep("legacyRefreshRoom") =>
            \A room \in RoomNames :
                legacyRefreshByRoom(res'.actor, room)
                    => RoomFrame(LegacyRoomHit(room, res'.actor), room, res'.actor)]_vars

\* the older worker alone, as stated
LegacyRefreshByRoomAsStated ==
    [][RoomStep("legacyRefreshRoom") =>
         \A room \in RoomNames :
             legacyRefreshByRoom(res'.actor, room)
                 => RoomFrame(LegacyRoomHit(room, res'.actor), room, res'.actor)]_vars

\* the worker alone, the id given to rows without one set aside
RefreshByRoomModuloBackfill ==
    [][RoomStep("refreshRoom") =>
         \A room \in RoomNames :
             refreshByRoom(res'.actor, room) =>
                LET hit == RoomHit(room, res'.actor)
                IN /\ Len(slots') = Len(slots)
                   /\ \A i \in 1..Len(slots) :
                         LET b == [slots[i] EXCEPT !.id = slots'[i].id]
                         IN /\ b = slots[i] \/ Backfilled(slots[i], b)
                            /\ slots'[i] = IF i \in hit THEN [b EXCEPT !.last = now] ELSE b
                   /\ res'.list = Updated(Cardinality(hit))
                   /\ RoomEvents(hit, room, res'.actor)]_vars

----------------------------------------------------------------------------
(* Audit trail (SpecAudit)                                                  *)

AuditOps == {"create", "refresh", "update", "delete"}

ActionOf(op) ==
    CASE op = "create" -> "CREATE" [] op = "refresh" -> "REFRESH"
      [] op = "update" -> "UPDATE" [] op = "delete" -> "DELETE"

\* the step appended exactly one event, for the slot, action and actor of
\* the operation
OneEvent ==
    /\ Len(events') = Len(events) + 1
    /\ events'[Len(events')].slot_id = res'.id
    /\ events'[Len(events')].action = ActionOf(res'.op)
    /\ events'[Len(events')].actor = res'.actor

EventsKept ==
    /\ Len(events') >= Len(events)
    /\ SubSeq(events', 1, Len(events)) = events

AuditStep == res = NoRes /\ res'.op \in AuditOps

\* C20: each Create, Refresh, Update and Delete that changes the slots
\* table appends exactly one event record with the slot id, the matching
\* action and the actor, also when a storage call fails part-way; no slot
\* change is persisted without its event, and no operation modifies or
\* removes an existing event record.
C20_EveryMutationAudited ==
    [][AuditStep => /\ (slots' # slots => OneEvent)
                    /\ EventsKept]_vars

\* the same of the operations all of whose storage calls were answered, the
\* id given to rows without one set aside
AuditedWhenNothingFails ==
    [][(AuditStep /\ res'.out # "error") =>
          /\ (\E i \in 1..Len(slots) :
                  Len(slots') # Len(slots)
                  \/ (slots'[i] # slots[i] /\ ~Backfilled(slots[i], slots'[i])))
               => OneEvent
          /\ EventsKept]_vars

\* the same of the operations one of whose storage calls failed
AuditedWhenACallFails ==
    [][(AuditStep /\ res'.out = "error") =>
          /\ (\E i \in 1..Len(slots) :
                  Len(slots') # Len(slots)
                  \/ (slots'[i] # slots[i] /\ ~Backfilled(slots[i], slots'[i])))
               => OneEvent
          /\ EventsKept]_vars

----------------------------------------------------------------------------
(* Concurrent requests (SpecRace)                                           *)

Authorised(c) ==
    c.slot # NoSlot /\ hasSlotAccess(c.slot, c.actor, groupSetOf(access, c.actor))

Started(cs) == {p \in Procs : cs[p].pc # "idle"}

\* every call in flight is a refresh of slot id by an actor with access
RefreshesOf(cs, id) ==
    \A p \in Started(cs) : cs[p].op = "refresh" /\ cs[p].id = id /\ Authorised(cs[p])

BothDone(cs) == \A p \in Procs : cs[p].pc = "done"

\* when both refreshes have returned: both succeeded, the slot carries the
\* timestamp of the write applied last, one REFRESH event per call
LastWriteWins(id) ==
    LET last == CHOOSE p \in Procs : calls'[p].order = Cardinality(Procs)
    IN /\ \A p \in Procs : calls'[p].out = "ok"
       /\ slots'[RowOf(slots', id)].last = calls'[last].stamp
       /\ Len(events') = Cardinality(Procs)
       /\ \A k \in 1..Len(events') :
             events'[k].action = "REFRESH" /\ events'[k].slot_id = id
       /\ \E f \in [1..Len(events') -> Procs] :
             /\ \A j, k \in 1..Len(events') : j # k => f[j] # f[k]
             /\ \A k \in 1..Len(events') : events'[k].actor = calls'[f[k]].actor

----------------------------------------------------------------------------
(* Reminder ticks among requests (SpecTickRace)                             *)

\* a step of a reminder tick
RemindStep == \E p \in Procs : calls'[p] # calls[p] /\ calls'[p].op = "remind"

\* C22: a reminder tick never writes to the slots, access, users or events
\* tables, so running it concurrently with request handlers cannot change
\* any stored slot field.
C22_ReminderOnlyReads ==
    [][RemindStep => UNCHANGED <<slots, access, users, events>>]_vars

\* a reminder tick leaves the id of every row that has one
ReminderKeepsStoredIds ==
    [][RemindStep =>
         \A i \in 1..Len(slots) : slots[i].id # NoId => slots'[i].id = slots[i].id]_vars

\* a reminder tick leaves the id of every slot the sheet started with
ReminderKeepsSeededIds ==
    [][RemindStep =>
         \A i \in 1..Len(slots) : slots[i].id \in RaceIds => slots'[i].id = slots[i].id]_vars

\* a reminder tick leaves every cell other than the ids
ReminderWritesIdsOnly ==
    [][RemindStep =>
         /\ UNCHANGED <<access, users, events>>
         /\ Len(slots') = Len(slots)
         /\ \A i \in 1..Len(slots) : slots'[i] = [slots[i] EXCEPT !.id = slots'[i].id]]_vars

----------------------------------------------------------------------------
(* Access resolver (SpecAccess)                                             *)

\* the groups in which u is a registered member
Registered(acc, u) ==
    {acc[j].g : j \in {k \in 1..Len(acc) : acc[k].m = u /\ acc[k].g # NoGroup}}

\* C23: listGroupsForUser(actor, ensure) returns all groups in which the
\* actor is a registered member; when there are none, with ensure = true it
\* appends (tg:<actor>, actor) to the access table and returns [tg:<actor>],
\* with ensure = false it writes nothing to the access table and the caller
\* (listSlots) compares against the non-persisted self-group tg:<actor>.
C23_ListGroupsForUser ==
    [][/\ (res = NoRes /\ res'.op = "groups") =>
            LET u == res'.actor
                mem == Registered(access, u)
            IN /\ mem # {} => (Range(res'.list) = mem /\ access' = access)
               /\ (mem = {} /\ res'.out = "ensure") =>
                     /\ access' = Append(access, [g |-> Tg(u), m |-> u])
                     /\ res'.list = <<Tg(u)>>
               /\ (mem = {} /\ res'.out = "plain") =>
                     /\ access' = access
                     /\ res'.list = <<>>
       /\ (res = NoRes /\ res'.op = "list" /\ res'.actor # NoActor) =>
            /\ access' = access
            /\ Registered(access, res'.actor) = {} =>
                  {res'.list[k].id : k \in 1..Len(res'.list)}
                    = {slots'[i].id : i \in {j \in SlotRows(slots') :
                                                RowGroup(slots'[j]) = Tg(res'.actor)}}]_vars

\* the self-group was persisted for an actor without a registered group
C23_Witness ==
    /\ res.op = "groups"
    /\ res.out = "ensure"
    /\ res.list = <<Tg(res.actor)>>
    /\ Len(access) > 0
    /\ access[Len(access)] = [g |-> Tg(res.actor), m |-> res.actor]
    /\ Cardinality({j \in 1..Len(access) : access[j].m = res.actor /\ access[j].g # NoGroup}) = 1

----------------------------------------------------------------------------
(* HTTP boundary (Spec)                                                     *)

\* C24: POST /api/slots/:id/refresh and DELETE /api/slots/:id answer 403
\* when the operation is forbidden and 404 when the slot id does not exist;
\* not found is never reported with the status of forbidden or of a generic
\* internal failure.
C24_BoundaryStatus ==
    res.op \in {"refresh", "delete"} =>
        /\ res.out = "forbidden" => httpStatus(res) = 403
        /\ res.out = "slot not found" =>
              /\ httpStatus(res) = 404
              /\ httpStatus(res) \notin {403, 500}

\* forbidden is answered 403, success 200
ForbiddenIs403 ==
    res.op \in {"refresh", "delete"} =>
        /\ res.out = "forbidden" => httpStatus(res) = 403
        /\ res.out = "ok" => httpStatus(res) = 200

----------------------------------------------------------------------------
(* Row positions under concurrent requests (SpecRace)                       *)

\* handler p applies its write in this step
WriteStep(p) == calls[p].pc = "write" /\ calls'[p].pc = "log"

\* the write of call c changed or removed only the slot c names, a slot its
\* actor has access to
HitsItsSlot(c) ==
    IF c.op = "delete"
    THEN \E i \in 1..Len(slots) :
            /\ slots[i].id = c.id
            /\ CanAccess(slots[i], access, c.actor)
            /\ slots' = Without(slots, i)
    ELSE /\ Len(slots') = Len(slots)
         /\ \A i \in 1..Len(slots) :
               slots'[i] # slots[i] =>
                  (slots[i].id = c.id /\ CanAccess(slots[i], access, c.actor))

\* C25: under any interleaving of refreshSlot, updateSlot and deleteSlot
\* calls by different actors, the row an operation writes or deletes is the
\* row of the slot it looked up and access-checked: no operation changes or
\* removes a slot its actor has no access to, and no Delete removes a slot
\* other than the one named, also when another Delete shifts the rows
\* between the read and the write.
C25_WriteHitsTheSlotLookedUp ==
    [][\A p \in Procs : WriteStep(p) => HitsItsSlot(calls[p])]_vars

\* the same while no delete is in flight
WriteHitsTheSlotWithoutDeletes ==
    [][\A p \in Procs :
         (WriteStep(p) /\ \A q \in Procs : calls[q].op # "delete") => HitsItsSlot(calls[p])]_vars

----------------------------------------------------------------------------
(* Refresh in the owner-based worker (SpecLegacy)                           *)

\* a refresh of a stored slot requested by an actor who is not its owner
NotOwnerRefresh ==
    /\ res = NoRes
    /\ res'.op = "legacyRefresh"
    /\ \E i \in 1..Len(slots) : slots[i].id = res'.id
    /\ \A i \in 1..Len(slots) : slots[i].id = res'.id => legacyOwner(slots[i]) # res'.actor

\* C26: in the owner-based worker a refresh requested by an actor who is
\* not the slot's owner does not change the slot's last_change_at and logs
\* no REFRESH event.
C26_LegacyRefreshChecksOwner ==
    [][NotOwnerRefresh => (slots' = slots /\ events' = events)]_vars

----------------------------------------------------------------------------
(* Lifetime of web access (SpecRenew)                                       *)

MagicExpiry == issued.token[2].exp

\* C27: a session token cannot itself be exchanged at /login for a new
\* session token, so no credential obtained from the magic link is valid
\* later than 7 days after the magic link's expiry.
C27_AccessBoundedInTime ==
    /\ vres.op = "relogin" => vres.kind # "302"
    /\ vres.cookie # <<>> =>
          jwtVerifyHS256(vres.cookie, ServerSecret, MagicExpiry + SessionTtl + 1).kind
            # "payload"

\* the cookie obtained with the magic link itself ends within the bound
FirstSessionBounded ==
    (vres.op = "login" /\ vres.kind = "302" /\ vres.tok = issued.token) =>
        vres.cookie[2].exp <= MagicExpiry + SessionTtl

----------------------------------------------------------------------------
(* First contact under interleaving (SpecContact)                          *)

UserRowsOf(u) == Cardinality({i \in 1..Len(users) : users[i].id = u})
SelfRowsOf(u) ==
    Cardinality({i \in 1..Len(access) : access[i] = Member(Tg(u), u)})

ContactsOf(u) == {p \in Procs : calls[p].actor = u}
ContactsDone(u) ==
    /\ ContactsOf(u) # {}
    /\ \A p \in ContactsOf(u) : calls[p].pc = "done"
    /\ \E p \in ContactsOf(u) : calls[p].op # "createSlot"

\* C28: after any interleaving of first-contact handlers for the same actor
\* the users table holds exactly one row for the actor and the access table
\* exactly one self-group membership (tg:<actor>, actor).
C28_FirstContactNoDuplicates ==
    ContactsDone(1) => UserRowsOf(1) = 1 /\ SelfRowsOf(1) = 1

\* one handler at a time leaves one row of each
FirstContactAlone ==
    (ContactsDone(1) /\ Cardinality(ContactsOf(1)) = 1) =>
        UserRowsOf(1) = 1 /\ SelfRowsOf(1) = 1

\* the handlers never leave the actor without a row
FirstContactAtLeastOne ==
    ContactsDone(1) => UserRowsOf(1) >= 1 /\ SelfRowsOf(1) >= 1

----------------------------------------------------------------------------
(* The creator of a slot and the slot (SpecOwn)                            *)

\* the actor of the CREATE event of the slot
CreatedBy(id, a) ==
    \E k \in 1..Len(events) :
        events[k].action = "CREATE" /\ events[k].slot_id = id /\ events[k].actor = a

Stored(id) == \E i \in 1..Len(slots) : slots[i].id = id

Listed(id) == \E k \in 1..Len(res.list) : res.list[k].id = id

\* the cell written by createSlot is a group cell of the owner's
\* membership rows
StoredInOwnGroup(id, a) ==
    \A i \in 1..Len(slots) : slots[i].id = id => slots[i].grp \in MemberOf(access, a)

OwnerKeepsAccess ==
    \A id \in OwnIds :
        /\ (res.op = "create" /\ res.id = id) => StoredInOwnGroup(id, res.actor)
        /\ (res.op = "list" /\ Stored(id) /\ CreatedBy(id, res.actor)) => Listed(id)
        /\ (res.op \in MutOps /\ res.id = id /\ CreatedBy(id, res.actor)) =>
              res.out # "forbidden"

\* C29: createSlot for owner A stores the slot with a group_id that is one
\* of A's groups, so that listSlots(A) contains the slot and refreshSlot,
\* updateSlot and deleteSlot by A on it are never forbidden.
C29_OwnerKeepsAccess == OwnerKeepsAccess

\* the same, for access sheets whose group keys are not made of digits only
OwnerKeepsAccessUnderWordKeys ==
    (\A k \in 1..Len(access) : access[k].g[1] # "num") => OwnerKeepsAccess

----------------------------------------------------------------------------
(* The two freshness notions (SpecRemind)                                  *)

AtLeastOne(q) == Geq(q, Whole(1))

Spent(m) == m.score[1] = 0 /\ m.status = "EXPIRED"

\* the stored rows that pass the binary test of the reminders
PastThreshold(row, at) ==
    /\ row.id # NoId
    /\ AtLeastOne(RowThreshold(row))
    /\ Geq(Whole(RowAge(row, at)), RowThreshold(row))

\* C30: for every slot whose stored threshold_days is >= 1, whenever the
\* binary overdue test (ageDays >= threshold_days) holds, calcStatus reports
\* score 0 and status EXPIRED, so a reminder never lists a slot of such a
\* threshold shown as OK or WARN.
C30_OverdueImpliesExpired ==
    /\ \A i \in 1..Len(slots) :
          PastThreshold(slots[i], now) =>
              Spent(calcStatus(parseSlotRow(slots[i], i + 1).threshold_days,
                               slots[i].last, now))
    /\ res.op = "remind" =>
          \A k \in 1..Len(res.list) : \A j \in 1..Len(res.list[k].slots) :
              AtLeastOne(res.list[k].slots[j].threshold_days) =>
                  Spent(res.list[k].slots[j])

\* a reminder lists a slot of fractional threshold 5/2 at age 3 days, and
\* the slot is shown with score 0, EXPIRED
C30_Witness ==
    /\ res.op = "remind"
    /\ \E k \in 1..Len(res.list) : \E j \in 1..Len(res.list[k].slots) :
          /\ res.list[k].slots[j].threshold_days = <<5, 2>>
          /\ res.list[k].slots[j].d = 3
          /\ Spent(res.list[k].slots[j])
    /\ \E i \in 1..Len(slots) : PastThreshold(slots[i], now) /\ slots[i].thr = <<5, 2>>

====
